---------------------------- MODULE Spec2Model ----------------------------
(***************************************************************************)
(* Verification model of the intelligent-web-scraper orchestration core:   *)
(*   - AdaptiveRateLimiter          (crawl4ai_wrapper.py)                  *)
(*   - ProgressManager              (progress_manager.py)                  *)
(*   - TokenBucketRateLimiter       (concurrent_scraper.py)                *)
(*   - ConcurrentScraper            (concurrent_scraper.py)                *)
(* Each component has its own specification (SpecARL, SpecPM, SpecRL) and  *)
(* Spec is the orchestrator (ConcurrentScraper.scrape_urls and workers).   *)
(***************************************************************************)
EXTENDS Integers, Sequences, FiniteSets, TLC

VARIABLES
    arl,        \* the AdaptiveRateLimiter object
    arl_obs,    \* observer of the calls made on arl (last call, runs of successes)
    pm,         \* the ProgressManager object, with the content of its progress file
    pm_obs,     \* observer of the calls made on pm (last call, its arguments)
    rl,         \* a TokenBucketRateLimiter object with its asyncio.Lock
    rl_caller,  \* the coroutines calling rl.acquire(): where each one is
    now,        \* time.monotonic(), in ticks
    rl_admitted, \* the times at which rl.acquire() calls returned, in order
    input_urls, \* the URL list handed to scrape_urls
    run,        \* the number of the process run (1 = the first run of the task)
    phase,      \* "created": scraper built; "running": in gather; "returned"
    scraper,    \* ConcurrentScraper: _shutdown and stats
    task,       \* the process_url tasks of the run: url, retry_count, where each one is
    glim,       \* rate_limiter.global_limiter: its lock
    dlims,      \* rate_limiter.domain_limiters: per origin, the limiter's lock
    gsem,       \* global_semaphore
    dsems,      \* domain_semaphores.semaphores: per origin
    results,    \* the result list of scrape_urls
    hist,       \* observer: fetches started and completions recorded, per run
    em,         \* the ExperienceManager object: self.patterns
    em_obs,     \* observer of the calls made on em (last call, its result)
    backoff,    \* the retry sleep of _scrape_single: retry_count, delay, jitter
    progress_dir, \* PROGRESS_DIR: the progress document of each task id, if any
    managers,   \* the ProgressManager objects constructed on PROGRESS_DIR, in order
    pd_obs,     \* observer of the calls made on them (last call, last writers)
    crawler     \* the IntelligentCrawler object and the crawl session it is in

arlVars == <<arl, arl_obs>>
pmVars == <<pm, pm_obs>>
rlVars == <<rl, rl_caller, now, rl_admitted>>
scVars == <<input_urls, run, phase, scraper, task, glim, dlims, gsem, dsems, results, hist>>
emVars == <<em, em_obs>>
bkVars == <<backoff>>
tkVars == <<progress_dir, managers, pd_obs>>
crVars == <<crawler>>

vars == <<arl, arl_obs, pm, pm_obs, rl, rl_caller, now, rl_admitted,
          input_urls, run, phase, scraper, task, glim, dlims, gsem, dsems, results, hist,
          em, em_obs, backoff, progress_dir, managers, pd_obs, crawler>>

Min(a, b) == IF a <= b THEN a ELSE b

(***************************************************************************)
(* AdaptiveRateLimiter (crawl4ai_wrapper.py)                               *)
(***************************************************************************)
NONE == 0
LIGHT == 1
MODERATE == 2
SEVERE == 3

\* status_code=None and blocked_at=None
NoStatus == 0
NoRequest == 0 - 1

\* status codes a caller may report: two explicit-block codes, two others, none
StatusCodes == {429, 403, 500, 404, NoStatus}

\* bounds of the SpecARL state space
MaxSuccessRun == 16
MaxFailureRun == 3
MaxRequests == 2

AdaptiveRateLimiter_init ==
    [block_level |-> NONE,
     consecutive_successes |-> 0,
     consecutive_failures |-> 0,
     request_count |-> 0,
     blocked_at |-> NoRequest]

\* AdaptiveRateLimiter.wait: the sleep is a delay only; request_count += 1
wait(r) == [r EXCEPT !.request_count = @ + 1]

report_success_early(r) ==
    LET r1 == [r EXCEPT !.consecutive_successes = @ + 1,
                        !.consecutive_failures = 0]
    IN IF r1.consecutive_successes >= 4 /\ r1.block_level > 0
       THEN [r1 EXCEPT !.block_level = @ - 1, !.consecutive_successes = 0]
       ELSE r1

report_success(r) ==
    LET r1 == [r EXCEPT !.consecutive_successes = @ + 1,
                        !.consecutive_failures = 0]
    IN IF r1.consecutive_successes >= 5 /\ r1.block_level > 0
       THEN [r1 EXCEPT !.block_level = @ - 1, !.consecutive_successes = 0]
       ELSE r1

report_failure_flat(r, status_code) ==
    [r EXCEPT !.consecutive_failures = @ + 1,
              !.consecutive_successes = 0,
              !.blocked_at = IF @ = NoRequest THEN r.request_count ELSE @,
              !.block_level = Min(@ + 1, SEVERE)]

report_failure(r, status_code) ==
    LET escalation == IF status_code \in {429, 403} THEN 2 ELSE 1
        new_level == Min(r.block_level + escalation, SEVERE)
    IN [r EXCEPT !.consecutive_failures = @ + 1,
                 !.consecutive_successes = 0,
                 !.blocked_at = IF @ = NoRequest THEN r.request_count ELSE @,
                 !.block_level = new_level]

\* The observer: the last call (op, code, the level before it), the call before
\* that one (prev_*), the number of report_success calls since the last
\* report_failure or the last drop of the level (run; run_before is its value
\* before the last call), the number since the last report_failure
\* (succ_since_fail), and the level the last report_failure left.
ObsInit ==
    [op |-> "init", code |-> NoStatus, level_before |-> NONE,
     prev_op |-> "init", prev_code |-> NoStatus, prev_level_before |-> NONE,
     run |-> 0, run_before |-> 0,
     succ_since_fail |-> 0, level_after_fail |-> NONE]

Observe(o, op, code, before, after) ==
    [op |-> op, code |-> code, level_before |-> before,
     prev_op |-> o.op, prev_code |-> o.code, prev_level_before |-> o.level_before,
     run |-> IF op = "report_failure" \/ after < before THEN 0
             ELSE IF op = "report_success" THEN o.run + 1 ELSE o.run,
     run_before |-> o.run,
     succ_since_fail |-> IF op = "report_failure" THEN 0
                         ELSE IF op = "report_success" THEN o.succ_since_fail + 1
                         ELSE o.succ_since_fail,
     level_after_fail |-> IF op = "report_failure" THEN after ELSE o.level_after_fail]

ReportSuccess ==
    /\ arl_obs.succ_since_fail < MaxSuccessRun
    /\ arl' = report_success(arl)
    /\ arl_obs' = Observe(arl_obs, "report_success", NoStatus,
                          arl.block_level, arl'.block_level)
    /\ UNCHANGED <<pmVars, rlVars, scVars, emVars, bkVars, tkVars, crVars>>

ReportFailure ==
    /\ arl.consecutive_failures < MaxFailureRun
    /\ \E status_code \in StatusCodes :
          /\ arl' = report_failure(arl, status_code)
          /\ arl_obs' = Observe(arl_obs, "report_failure", status_code,
                                arl.block_level, arl'.block_level)
    /\ UNCHANGED <<pmVars, rlVars, scVars, emVars, bkVars, tkVars, crVars>>

Wait ==
    /\ arl.request_count < MaxRequests
    /\ arl' = wait(arl)
    /\ arl_obs' = Observe(arl_obs, "wait", NoStatus,
                          arl.block_level, arl'.block_level)
    /\ UNCHANGED <<pmVars, rlVars, scVars, emVars, bkVars, tkVars, crVars>>

IdleARL == arl = AdaptiveRateLimiter_init /\ arl_obs = ObsInit

(***************************************************************************)
(* ProgressManager (progress_manager.py)                                   *)
(***************************************************************************)
URLS == {"A", "B", "C", "D"}

\* urlparse(url).netloc
netloc(url) == IF url \in {"A", "B"} THEN "a.example" ELSE "b.example"

\* None for last_url and last_error; the progress file does not exist
NoUrl == "-"
NoError == "-"
NoFile == [status |-> "absent"]

\* data of mark_completed: None or {} (falsy), or a non-empty dict
Data == {"empty", "page"}
Errors == {"timeout"}

Range(q) == {q[i] : i \in 1..Len(q)}

\* ProgressState(task_id, start_url): the fields the operations read or write
\* (timestamps, notes, config and the pagination fields are left out)
ProgressState_new ==
    [status |-> "in_progress",
     total_urls |-> 0, completed_urls |-> 0, failed_urls |-> 0,
     urls_to_scrape |-> <<>>, completed_url_list |-> <<>>, failed_url_list |-> <<>>,
     scraped_data |-> <<>>,
     last_url |-> NoUrl, last_error |-> NoError, retry_count |-> 0]

\* the names of the fields of ProgressState
ProgressStateFields == DOMAIN ProgressState_new

\* cls(**data) with a keyword that is no field of the dataclass
TypeError == [status |-> "TypeError"]

\* ProgressState.to_dict: asdict(self)
to_dict(state) == state

\* ProgressState.from_dict: cls(**data)
from_dict(data) ==
    IF DOMAIN data \subseteq ProgressStateFields THEN data ELSE TypeError

\* ProgressManager._load: json.load and ProgressState.from_dict; only
\* JSONDecodeError and IOError are caught
_load(file) == from_dict(file)

\* ProgressManager.__init__ on a progress file that exists or not
ProgressManager_init(file, auto_save, save_interval) ==
    LET state == IF file # NoFile THEN _load(file) ELSE ProgressState_new
    IN [auto_save |-> auto_save,
        save_interval |-> save_interval,
        _completions_since_save |-> 0,
        state |-> state,
        _completed_set |-> Range(state.completed_url_list),
        file |-> file]

save(m) == [m EXCEPT !.file = to_dict(m.state)]

_maybe_auto_save_unwritten(m) ==
    IF m.auto_save THEN [m EXCEPT !._completions_since_save = @ + 1] ELSE m

_maybe_auto_save(m) ==
    IF m.auto_save
    THEN LET m1 == [m EXCEPT !._completions_since_save = @ + 1]
         IN IF m1._completions_since_save >= m1.save_interval
            THEN [save(m1) EXCEPT !._completions_since_save = 0]
            ELSE m1
    ELSE m

is_completed(m, url) == url \in m._completed_set

is_failed(m, url) == url \in Range(m.state.failed_url_list)

set_urls(m, urls) ==
    _maybe_auto_save([m EXCEPT !.state.urls_to_scrape = urls,
                               !.state.total_urls = Len(urls)])

RECURSIVE AppendNew(_, _)
\* for url in urls: if url not in worklist: worklist.append(url)
AppendNew(worklist, urls) ==
    IF urls = <<>> THEN worklist
    ELSE AppendNew(IF Head(urls) \in Range(worklist) THEN worklist
                   ELSE Append(worklist, Head(urls)),
                   Tail(urls))

add_urls(m, urls) ==
    LET w == AppendNew(m.state.urls_to_scrape, urls)
    IN _maybe_auto_save([m EXCEPT !.state.urls_to_scrape = w,
                                  !.state.total_urls = Len(w)])

get_remaining_urls_completed_only(m) ==
    SelectSeq(m.state.urls_to_scrape, LAMBDA url : url \notin m._completed_set)

get_remaining_urls(m) ==
    SelectSeq(m.state.urls_to_scrape,
              LAMBDA url : /\ url \notin m._completed_set
                           /\ url \notin Range(m.state.failed_url_list))

mark_completed_recounting(m, url, data) ==
    _maybe_auto_save(
        [m EXCEPT !._completed_set = @ \cup {url},
                  !.state.completed_url_list =
                     IF url \in m._completed_set THEN @ ELSE Append(@, url),
                  !.state.completed_urls = @ + 1,
                  !.state.last_url = url, !.state.retry_count = 0,
                  !.state.scraped_data =
                     IF data # "empty" THEN Append(@, [_url |-> url, data |-> data])
                     ELSE @])

mark_completed(m, url, data) ==
    LET m1 == IF url \notin m._completed_set
              THEN [m EXCEPT !._completed_set = @ \cup {url},
                             !.state.completed_url_list = Append(@, url),
                             !.state.completed_urls = @ + 1]
              ELSE m
        m2 == [m1 EXCEPT !.state.last_url = url, !.state.retry_count = 0]
        m3 == IF data # "empty"
              THEN [m2 EXCEPT !.state.scraped_data =
                                 Append(@, [_url |-> url, data |-> data])]
              ELSE m2
    IN _maybe_auto_save(m3)

mark_failed_appending(m, url, error) ==
    _maybe_auto_save([m EXCEPT !.state.failed_url_list = Append(@, url),
                               !.state.failed_urls = @ + 1,
                               !.state.last_error = error,
                               !.state.retry_count = @ + 1])

\* lines 271-279
mark_failed(m, url, error) ==
    LET m1 == IF url \notin Range(m.state.failed_url_list)
              THEN [m EXCEPT !.state.failed_url_list = Append(@, url),
                             !.state.failed_urls = @ + 1]
              ELSE m
    IN _maybe_auto_save([m1 EXCEPT !.state.last_error = error,
                                   !.state.retry_count = @ + 1])

pause_without_save(m) == [m EXCEPT !.state.status = "paused"]

pause(m) == save([m EXCEPT !.state.status = "paused"])

resume(m) == save([m EXCEPT !.state.status = "in_progress"])

finish_without_save(m, status) == [m EXCEPT !.state.status = status]

finish(m, status) == save([m EXCEPT !.state.status = status])

fail(m, error) ==
    save([m EXCEPT !.state.status = "failed", !.state.last_error = error])

reset_keeping_set(m) == save([m EXCEPT !.state = ProgressState_new])

\* lines 338-347: a new ProgressState, the completed set cleared, the file written
reset(m) == save([m EXCEPT !.state = ProgressState_new, !._completed_set = {}])

\* bounds of the SpecPM state space
MaxCalls == 4
MaxSaveInterval == 2

\* the URL lists a caller passes to set_urls and add_urls
UrlLists == {<<"A", "B", "C", "D">>, <<"A", "B">>, <<"D", "C", "D">>}

\* The observer: the last call with its arguments, and the number of calls made.
\* unsaved counts the mark_completed calls made since the file was last written,
\* dropped the completed URLs the last reset() cleared.
PMObsInit ==
    [op |-> "init", url |-> NoUrl, data |-> "empty", calls |-> 0, unsaved |-> 0,
     dropped |-> 0]

\* the call that led to m wrote the file: pause, resume, finish, fail and reset
\* call save(); _maybe_auto_save leaves its counter at 0 exactly when it called save()
Wrote(op, m) ==
    \/ op \in {"pause", "resume", "finish", "fail", "reset"}
    \/ m.auto_save /\ m._completions_since_save = 0

PMObserve(op, url, data, m) ==
    [op |-> op, url |-> url, data |-> data, calls |-> pm_obs.calls + 1,
     unsaved |-> IF Wrote(op, m) THEN 0
                 ELSE IF op = "mark_completed" THEN pm_obs.unsaved + 1
                 ELSE pm_obs.unsaved,
     dropped |-> IF op = "reset" THEN Cardinality(pm._completed_set)
                 ELSE pm_obs.dropped]

SetUrls ==
    /\ pm_obs.calls < MaxCalls
    /\ \E urls \in UrlLists :
          /\ pm' = set_urls(pm, urls)
          /\ pm_obs' = PMObserve("set_urls", NoUrl, "empty", pm')
    /\ UNCHANGED <<arlVars, rlVars, scVars, emVars, bkVars, tkVars, crVars>>

AddUrls ==
    /\ pm_obs.calls < MaxCalls
    /\ \E urls \in UrlLists :
          /\ pm' = add_urls(pm, urls)
          /\ pm_obs' = PMObserve("add_urls", NoUrl, "empty", pm')
    /\ UNCHANGED <<arlVars, rlVars, scVars, emVars, bkVars, tkVars, crVars>>

MarkCompleted ==
    /\ pm_obs.calls < MaxCalls
    /\ \E url \in URLS, data \in Data :
          /\ pm' = mark_completed(pm, url, data)
          /\ pm_obs' = PMObserve("mark_completed", url, data, pm')
    /\ UNCHANGED <<arlVars, rlVars, scVars, emVars, bkVars, tkVars, crVars>>

MarkFailed ==
    /\ pm_obs.calls < MaxCalls
    /\ \E url \in URLS, error \in Errors :
          /\ pm' = mark_failed(pm, url, error)
          /\ pm_obs' = PMObserve("mark_failed", url, "empty", pm')
    /\ UNCHANGED <<arlVars, rlVars, scVars, emVars, bkVars, tkVars, crVars>>

\* the statuses a caller passes to finish(status); "completed" is the default
FinishStatuses == {"completed", "failed"}

Pause ==
    /\ pm_obs.calls < MaxCalls
    /\ pm' = pause(pm)
    /\ pm_obs' = PMObserve("pause", NoUrl, "empty", pm')
    /\ UNCHANGED <<arlVars, rlVars, scVars, emVars, bkVars, tkVars, crVars>>

Resume ==
    /\ pm_obs.calls < MaxCalls
    /\ pm' = resume(pm)
    /\ pm_obs' = PMObserve("resume", NoUrl, "empty", pm')
    /\ UNCHANGED <<arlVars, rlVars, scVars, emVars, bkVars, tkVars, crVars>>

Finish ==
    /\ pm_obs.calls < MaxCalls
    /\ \E status \in FinishStatuses :
          /\ pm' = finish(pm, status)
          /\ pm_obs' = PMObserve("finish", NoUrl, "empty", pm')
    /\ UNCHANGED <<arlVars, rlVars, scVars, emVars, bkVars, tkVars, crVars>>

Fail ==
    /\ pm_obs.calls < MaxCalls
    /\ \E error \in Errors :
          /\ pm' = fail(pm, error)
          /\ pm_obs' = PMObserve("fail", NoUrl, "empty", pm')
    /\ UNCHANGED <<arlVars, rlVars, scVars, emVars, bkVars, tkVars, crVars>>

Reset ==
    /\ pm_obs.calls < MaxCalls
    /\ pm' = reset(pm)
    /\ pm_obs' = PMObserve("reset", NoUrl, "empty", pm')
    /\ UNCHANGED <<arlVars, rlVars, scVars, emVars, bkVars, tkVars, crVars>>

IdlePM == pm = ProgressManager_init(NoFile, TRUE, 1) /\ pm_obs = PMObsInit

(***************************************************************************)
(* TokenBucketRateLimiter (concurrent_scraper.py)                          *)
(*                                                                         *)
(* Time is counted in ticks of 1/TicksPerSecond s.  A rate is a fraction   *)
(* <<num, den>> of tokens per second, and the float tokens is kept as a    *)
(* whole number of 1/Unit(l) tokens, so that elapsed * rate is exact.      *)
(***************************************************************************)
TicksPerSecond == 2

\* bounds of the SpecRL state space
NumCallers == 2
MaxTime == 3
MaxAdmitted == 5

RLCallers == 1..NumCallers

\* the rates the limiter is built with (--rate-limit and --domain-rate-limit are
\* floats, lines 535-537): 1, 2, 0.5 and 2.5 per second
Rates == {<<1, 1>>, <<2, 1>>, <<1, 2>>, <<5, 2>>}

NoCapacity == 0
NoCaller == 0

Unit(l) == l.den * TicksPerSecond

\* __init__(rate, capacity=None): capacity or int(rate); tokens = float(capacity)
TokenBucketRateLimiter_init(rate, capacity, t) ==
    LET cap == IF capacity # NoCapacity THEN capacity ELSE rate[1] \div rate[2]
    IN [num |-> rate[1], den |-> rate[2],
        capacity |-> cap,
        tokens |-> cap * rate[2] * TicksPerSecond,
        last_update |-> t,
        _lock |-> NoCaller, _waiters |-> <<>>]

refill_uncapped(l, t) ==
    [l EXCEPT !.tokens = @ + (t - l.last_update) * l.num, !.last_update = t]

\* lines 137-140: tokens = min(capacity, tokens + elapsed * rate); last_update = now
refill(l, t) ==
    [l EXCEPT !.tokens = Min(l.capacity * Unit(l), @ + (t - l.last_update) * l.num),
              !.last_update = t]

\* line 144: wait_time = (tokens - self.tokens) / self.rate, in ticks, rounded up
\* to the tick at which the sleep can end
wait_time(l, tokens) == ((tokens * Unit(l) - l.tokens) + l.num - 1) \div l.num

\* asyncio.Lock.release: the lock goes to the first waiter, if any
lock_release(l) ==
    IF l._waiters = <<>> THEN [l EXCEPT !._lock = NoCaller]
    ELSE [l EXCEPT !._lock = Head(l._waiters), !._waiters = Tail(l._waiters)]

\* lines 134-150 with the lock held, up to the sleep or the return
acquire_locked(c, tokens) ==
    LET l == refill([rl EXCEPT !._lock = c], now)
    IN IF l.tokens < tokens * Unit(l)
       THEN /\ rl' = l
            /\ rl_caller' = [rl_caller EXCEPT ![c] =
                                [pc |-> "sleep", wake |-> now + wait_time(l, tokens)]]
            /\ UNCHANGED rl_admitted
       ELSE /\ rl' = lock_release([l EXCEPT !.tokens = @ - tokens * Unit(l)])
            /\ rl_caller' = [rl_caller EXCEPT ![c] = [pc |-> "idle", wake |-> 0]]
            /\ rl_admitted' = Append(rl_admitted, now)

\* a coroutine calls acquire(1): it takes the free lock and runs to the sleep or
\* the return, or it queues for the lock
RLAcquire(c) ==
    /\ rl_caller[c].pc = "idle"
    /\ Len(rl_admitted) + Cardinality({d \in RLCallers : rl_caller[d].pc # "idle"})
          < MaxAdmitted
    /\ IF rl._lock = NoCaller
       THEN acquire_locked(c, 1)
       ELSE /\ rl' = [rl EXCEPT !._waiters = Append(@, c)]
            /\ rl_caller' = [rl_caller EXCEPT ![c] = [pc |-> "wait_lock", wake |-> 0]]
            /\ UNCHANGED rl_admitted
    /\ UNCHANGED now
    /\ UNCHANGED <<arlVars, pmVars, scVars, emVars, bkVars, tkVars, crVars>>

\* a queued coroutine that was handed the lock runs
RLLocked(c) ==
    /\ rl_caller[c].pc = "wait_lock"
    /\ rl._lock = c
    /\ acquire_locked(c, 1)
    /\ UNCHANGED now
    /\ UNCHANGED <<arlVars, pmVars, scVars, emVars, bkVars, tkVars, crVars>>

\* lines 145-150: the sleep is over; tokens = 0; the lock is released
RLWake(c) ==
    /\ rl_caller[c].pc = "sleep"
    /\ now >= rl_caller[c].wake
    /\ rl' = lock_release([rl EXCEPT !.tokens = 0])
    /\ rl_caller' = [rl_caller EXCEPT ![c] = [pc |-> "idle", wake |-> 0]]
    /\ rl_admitted' = Append(rl_admitted, now)
    /\ UNCHANGED now
    /\ UNCHANGED <<arlVars, pmVars, scVars, emVars, bkVars, tkVars, crVars>>

\* the task of a caller is cancelled while it is suspended in acquire: in the
\* sleep of line 145 the 'async with' of line 133 releases the lock and line 146
\* is not reached; in the wait for the lock it leaves the queue, or passes the
\* lock on when it had just been handed it
RLCancel(c) ==
    /\ rl_caller[c].pc \in {"sleep", "wait_lock"}
    /\ rl' = IF rl._lock = c THEN lock_release(rl)
             ELSE [rl EXCEPT !._waiters = SelectSeq(@, LAMBDA d : d # c)]
    /\ rl_caller' = [rl_caller EXCEPT ![c] = [pc |-> "idle", wake |-> 0]]
    /\ UNCHANGED <<now, rl_admitted>>
    /\ UNCHANGED <<arlVars, pmVars, scVars, emVars, bkVars, tkVars, crVars>>

\* the clock advances
Tick ==
    /\ now < MaxTime
    /\ now' = now + 1
    /\ UNCHANGED <<rl, rl_caller, rl_admitted>>
    /\ UNCHANGED <<arlVars, pmVars, scVars, emVars, bkVars, tkVars, crVars>>

IdleRL ==
    /\ rl = TokenBucketRateLimiter_init(<<1, 1>>, NoCapacity, 0)
    /\ rl_caller = [c \in RLCallers |-> [pc |-> "idle", wake |-> 0]]
    /\ now = 0
    /\ rl_admitted = <<>>

(***************************************************************************)
(* ConcurrentScraper (concurrent_scraper.py)                               *)
(*                                                                         *)
(* The tasks run on one asyncio event loop: a task runs from one           *)
(* suspension point to the next without interleaving.  The suspension      *)
(* points of process_url are: created (not started yet), the wait for a    *)
(* limiter's lock (gl_wait, dl_wait), the sleep inside a limiter with its  *)
(* lock held (gl_sleep, dl_sleep), the jitter sleep, the wait for the      *)
(* per-origin permit (dsem_wait) and for the global permit (gsem_wait),    *)
(* the crawl (fetch) and the retry backoff sleep (backoff).  Whether a     *)
(* limiter has a token when a task refills it depends on the clock and is  *)
(* an input (tok).                                                         *)
(***************************************************************************)
\* ConcurrencyConfig, scaled down: max_concurrent, max_per_domain, max_retries
max_concurrent == 1
max_per_domain == 1
max_retries == 1

\* ProgressManager(task_id, auto_save=True, save_interval=5)
progress_save_interval == 5

\* crawl4ai is importable
CRAWL4AI_AVAILABLE == TRUE

\* bounds of the Spec state space
NumUrls == 2
MaxRuns == 2

Tasks == 1..NumUrls
Origins == {netloc(u) : u \in URLS}

\* the URL lists handed to scrape_urls: one URL twice, two URLs of one origin,
\* two origins
ScrapeInputs ==
    {q \in {<<"A", "A">>, <<"A", "B">>, <<"A", "C">>, <<"A", "B", "C">>} :
        Len(q) <= NumUrls}

\* attempts and trace are observers: the fetches the worker started, and what
\* the current call of _scrape_single acquired, started and released, in order
NoTask ==
    [url |-> NoUrl, pc |-> "none", retry_count |-> 0, cancel |-> FALSE,
     attempts |-> 0, trace |-> <<>>]

event(s, w, e) == [s EXCEPT !.task[w].trace = Append(@, e)]

\* asyncio.Lock of a limiter, not created yet or created
\* instance numbers the objects made for one registry key: 0 before the first
LockObject(created) ==
    [created |-> created, _lock |-> NoCaller, _waiters |-> <<>>,
     instance |-> IF created THEN 1 ELSE 0]

\* a new object takes the place of old in a registry
NewInstance(obj, old) == [obj EXCEPT !.instance = old.instance + 1]

\* asyncio.Semaphore(n): handed holds the waiters that were woken with a permit
\* and have not run yet
Semaphore(created, n) ==
    [created |-> created, value |-> n, waiters |-> <<>>, handed |-> {},
     instance |-> IF created THEN 1 ELSE 0]

Remove(q, x) == SelectSeq(q, LAMBDA y : y # x)

sem_release_waking_nobody(sem) ==
    IF sem.waiters = <<>> THEN [sem EXCEPT !.value = @ + 1]
    ELSE [sem EXCEPT !.waiters = Tail(@)]

\* Semaphore.release: the permit goes to the first waiter, if any
sem_release(sem) ==
    IF sem.waiters = <<>> THEN [sem EXCEPT !.value = @ + 1]
    ELSE [sem EXCEPT !.waiters = Tail(@), !.handed = @ \cup {Head(sem.waiters)}]

\* CancelledError in Semaphore.acquire: a waiter leaves; a permit it was handed
\* goes back
sem_cancel(sem, w) ==
    IF w \in sem.handed THEN sem_release([sem EXCEPT !.handed = @ \ {w}])
    ELSE [sem EXCEPT !.waiters = Remove(@, w)]

\* CancelledError in Lock.acquire: a waiter leaves; a lock it was handed goes on
lock_cancel(l, w) ==
    IF l._lock = w THEN lock_release(l)
    ELSE [l EXCEPT !._waiters = Remove(@, w)]

\* ScrapeResult: url, success, error
Result(url, success, error) == [url |-> url, success |-> success, error |-> error]

ConcurrentScraper_init(file) ==
    [pm |-> ProgressManager_init(file, TRUE, progress_save_interval),
     scraper |-> [_shutdown |-> FALSE,
                  stats |-> [total |-> 0, completed |-> 0, failed |-> 0, retried |-> 0]],
     task |-> [w \in Tasks |-> NoTask],
     glim |-> LockObject(TRUE),
     dlims |-> [d \in Origins |-> LockObject(FALSE)],
     gsem |-> Semaphore(TRUE, max_concurrent),
     dsems |-> [d \in Origins |-> Semaphore(FALSE, max_per_domain)],
     results |-> <<>>]

\* the state the operations of a task work on
St ==
    [pm |-> pm, scraper |-> scraper, task |-> task, glim |-> glim, dlims |-> dlims,
     gsem |-> gsem, dsems |-> dsems, results |-> results, hist |-> hist]

Becomes(s) ==
    /\ pm' = s.pm
    /\ scraper' = s.scraper
    /\ task' = s.task
    /\ glim' = s.glim
    /\ dlims' = s.dlims
    /\ gsem' = s.gsem
    /\ dsems' = s.dsems
    /\ results' = s.results
    /\ hist' = s.hist

process_url_result_successes_only(s, w, result) ==
    [s EXCEPT !.results = Append(@, result),
              !.scraper.stats.completed = IF result.success THEN @ + 1 ELSE @,
              !.task[w].pc = "done",
              !.task[w].cancel = FALSE]

\* process_url, lines 425-443: the result is appended and counted; the task ends
process_url_result(s, w, result) ==
    [s EXCEPT !.results = Append(@, result),
              !.scraper.stats.completed = IF result.success THEN @ + 1 ELSE @,
              !.scraper.stats.failed = IF result.success THEN @ ELSE @ + 1,
              !.task[w].pc = "done",
              !.task[w].cancel = FALSE]

\* lines 341-344, the finally block: both permits are released
release_permits(s, w) ==
    LET d == netloc(s.task[w].url)
        s1 == IF s.dsems[d].created
              THEN event([s EXCEPT !.dsems[d] = sem_release(@)], w, "release_domain")
              ELSE s
    IN event([s1 EXCEPT !.gsem = sem_release(@)], w, "release_global")

\* lines 291-315 with both permits held: the crawl starts
start_fetch(s, w) ==
    IF ~CRAWL4AI_AVAILABLE
    THEN process_url_result(release_permits(s, w), w,
                            Result(s.task[w].url, FALSE, "Crawl4AI not installed"))
    ELSE event([s EXCEPT !.task[w].pc = "fetch",
                         !.task[w].attempts = @ + 1,
                         !.hist.fetched = @ \cup {<<run, s.task[w].url>>}], w, "fetch")

global_acquire_unbounded(s, w) ==
    start_fetch(event([s EXCEPT !.gsem.value = @ - 1], w, "global_permit"), w)

\* line 289: await self.global_semaphore.acquire()
global_acquire(s, w) ==
    IF s.gsem.value > 0
    THEN start_fetch(event([s EXCEPT !.gsem.value = @ - 1], w, "global_permit"), w)
    ELSE [s EXCEPT !.gsem.waiters = Append(@, w), !.task[w].pc = "gsem_wait"]

\* DomainSemaphoreManager.acquire, lines 208-210: the origin's semaphore is
\* created if absent
get_domain_semaphore(s, d) ==
    IF s.dsems[d].created THEN s
    ELSE [s EXCEPT !.dsems[d] = NewInstance(Semaphore(TRUE, max_per_domain), @)]

\* line 288, DomainSemaphoreManager.acquire; then line 289
domain_acquire(s, w) ==
    LET d == netloc(s.task[w].url)
        s1 == get_domain_semaphore(s, d)
    IN IF s1.dsems[d].value > 0
       THEN global_acquire(event([s1 EXCEPT !.dsems[d].value = @ - 1], w,
                                 "domain_permit"), w)
       ELSE [s1 EXCEPT !.dsems[d].waiters = Append(@, w),
                       !.task[w].pc = "dsem_wait"]

jitter_skipped(s, w) == domain_acquire(s, w)

\* lines 184-185: the jitter sleep of DomainRateLimiter.acquire
jitter(s, w) == [s EXCEPT !.task[w].pc = "jitter"]

\* the origin's limiter with its lock held: a token is there, or the task sleeps
domain_limiter_locked(s, w, tok) ==
    LET d == netloc(s.task[w].url)
    IN IF tok.d
       THEN jitter(event([s EXCEPT !.dlims[d] = lock_release(@)], w, "domain_limiter"), w)
       ELSE [s EXCEPT !.task[w].pc = "dl_sleep"]

\* line 181: await self.domain_limiters[domain].acquire()
domain_limiter_acquire(s, w, tok) ==
    LET d == netloc(s.task[w].url)
    IN IF s.dlims[d]._lock = NoCaller
       THEN domain_limiter_locked([s EXCEPT !.dlims[d]._lock = w], w, tok)
       ELSE [s EXCEPT !.dlims[d]._waiters = Append(@, w), !.task[w].pc = "dl_wait"]

\* the global limiter with its lock held
global_limiter_locked(s, w, tok) ==
    IF tok.g
    THEN domain_limiter_acquire(
            event([s EXCEPT !.glim = lock_release(@)], w, "global_limiter"), w, tok)
    ELSE [s EXCEPT !.task[w].pc = "gl_sleep"]

get_domain_limiter_unguarded(s, d) ==
    [s EXCEPT !.dlims[d] = NewInstance(LockObject(TRUE), @)]

\* DomainRateLimiter.acquire, lines 173-178: the origin's limiter is created if
\* absent
get_domain_limiter(s, d) ==
    IF s.dlims[d].created THEN s
    ELSE [s EXCEPT !.dlims[d] = NewInstance(LockObject(TRUE), @)]

\* DomainRateLimiter.acquire, lines 170-180: the origin's limiter is created if
\* absent, then await self.global_limiter.acquire()
rate_limiter_acquire(s, w, tok) ==
    LET d == netloc(s.task[w].url)
        s1 == get_domain_limiter(s, d)
    IN IF s1.glim._lock = NoCaller
       THEN global_limiter_locked([s1 EXCEPT !.glim._lock = w], w, tok)
       ELSE [s1 EXCEPT !.glim._waiters = Append(@, w), !.task[w].pc = "gl_wait"]

_scrape_single_heedless(s, w, tok) ==
    IF is_completed(s.pm, s.task[w].url)
    THEN process_url_result(s, w, Result(s.task[w].url, TRUE,
                                         "Already completed (skipped)"))
    ELSE rate_limiter_acquire([s EXCEPT !.task[w].trace = <<>>], w, tok)

\* _scrape_single, lines 267-285: the skip of a completed URL, the shutdown
\* check, then the rate limiter
_scrape_single(s, w, tok) ==
    LET url == s.task[w].url
    IN IF is_completed(s.pm, url)
       THEN process_url_result(s, w, Result(url, TRUE, "Already completed (skipped)"))
       ELSE IF s.scraper._shutdown
       THEN process_url_result([s EXCEPT !.hist.aborted = @ \cup {<<run, url>>}],
                               w, Result(url, FALSE, "Shutdown requested"))
       ELSE rate_limiter_acquire([s EXCEPT !.task[w].trace = <<>>], w, tok)

\* lines 319-337: the crawl succeeded
fetch_succeeded(s, w) ==
    LET url == s.task[w].url
        s1 == [s EXCEPT !.pm = mark_completed(@, url, "page"),
                        !.hist.marked = @ \cup {<<run, url>>}]
    IN process_url_result(release_permits(s1, w), w, Result(url, TRUE, ""))

fetch_failed_unrecorded(s, w) ==
    process_url_result(release_permits(s, w), w, Result(s.task[w].url, FALSE, "timeout"))

fetch_failed_retrying_again(s, w) ==
    LET url == s.task[w].url
        s1 == release_permits(s, w)
    IN IF s1.task[w].retry_count <= max_retries /\ ~s1.scraper._shutdown
       THEN [s1 EXCEPT !.scraper.stats.retried = @ + 1, !.task[w].pc = "backoff"]
       ELSE process_url_result([s1 EXCEPT !.pm = mark_failed(@, url, "timeout")],
                               w, Result(url, FALSE, "timeout"))

fetch_failed_holding_permits(s, w) ==
    LET url == s.task[w].url
    IN IF s.task[w].retry_count < max_retries /\ ~s.scraper._shutdown
       THEN [s EXCEPT !.scraper.stats.retried = @ + 1, !.task[w].pc = "backoff"]
       ELSE process_url_result([release_permits(s, w) EXCEPT
                                   !.pm = mark_failed(@, url, "timeout")],
                               w, Result(url, FALSE, "timeout"))

\* lines 339-376: the crawl failed (result.success false, or arun raised)
fetch_failed(s, w) ==
    LET url == s.task[w].url
        s1 == release_permits(s, w)
    IN IF s1.task[w].retry_count < max_retries /\ ~s1.scraper._shutdown
       THEN [s1 EXCEPT !.scraper.stats.retried = @ + 1, !.task[w].pc = "backoff"]
       ELSE process_url_result([s1 EXCEPT !.pm = mark_failed(@, url, "timeout")],
                               w, Result(url, FALSE, "timeout"))

\* request_shutdown, lines 466-474
request_shutdown(s) ==
    [s EXCEPT !.scraper._shutdown = TRUE,
              !.task = [w \in Tasks |->
                          IF s.task[w].pc \notin {"none", "done"}
                          THEN [s.task[w] EXCEPT !.cancel = TRUE]
                          ELSE s.task[w]],
              !.hist.interrupted = IF phase = "running" THEN @ \cup {run} ELSE @]

\* handle_interrupt is a signal handler: it runs between two bytecodes of the
\* running task, so request_shutdown() can be called inside a task's run, before
\* the task reads the flag
signalled(s, sig) == IF sig THEN request_shutdown(s) ELSE s

Signals == IF scraper._shutdown THEN {FALSE} ELSE BOOLEAN

Runnable(w, pc) == task[w].pc = pc /\ ~task[w].cancel

Tokens == [g : BOOLEAN, d : BOOLEAN]

\* the event loop runs a task for the first time
TaskStart(w) ==
    /\ Runnable(w, "created")
    /\ \E tok \in Tokens, sig \in Signals :
          Becomes(_scrape_single(signalled(St, sig), w, tok))
    /\ UNCHANGED <<input_urls, run, phase>>
    /\ UNCHANGED <<arlVars, rlVars, pm_obs, emVars, bkVars, tkVars, crVars>>

\* a task that queued for the global limiter's lock has it
GlobalLimiterLocked(w) ==
    /\ Runnable(w, "gl_wait")
    /\ glim._lock = w
    /\ \E tok \in Tokens : Becomes(global_limiter_locked(St, w, tok))
    /\ UNCHANGED <<input_urls, run, phase>>
    /\ UNCHANGED <<arlVars, rlVars, pm_obs, emVars, bkVars, tkVars, crVars>>

\* the sleep inside the global limiter is over: lines 146-150, then line 181
GlobalLimiterWake(w) ==
    /\ Runnable(w, "gl_sleep")
    /\ \E tok \in Tokens :
          Becomes(domain_limiter_acquire(
                     event([St EXCEPT !.glim = lock_release(@)], w, "global_limiter"),
                     w, tok))
    /\ UNCHANGED <<input_urls, run, phase>>
    /\ UNCHANGED <<arlVars, rlVars, pm_obs, emVars, bkVars, tkVars, crVars>>

DomainLimiterLocked(w) ==
    /\ Runnable(w, "dl_wait")
    /\ dlims[netloc(task[w].url)]._lock = w
    /\ \E tok \in Tokens : Becomes(domain_limiter_locked(St, w, tok))
    /\ UNCHANGED <<input_urls, run, phase>>
    /\ UNCHANGED <<arlVars, rlVars, pm_obs, emVars, bkVars, tkVars, crVars>>

DomainLimiterWake(w) ==
    /\ Runnable(w, "dl_sleep")
    /\ Becomes(jitter(event([St EXCEPT !.dlims[netloc(task[w].url)] = lock_release(@)],
                            w, "domain_limiter"), w))
    /\ UNCHANGED <<input_urls, run, phase>>
    /\ UNCHANGED <<arlVars, rlVars, pm_obs, emVars, bkVars, tkVars, crVars>>

\* the jitter sleep is over: lines 287-289
JitterWake(w) ==
    /\ Runnable(w, "jitter")
    /\ Becomes(domain_acquire(event(St, w, "jitter"), w))
    /\ UNCHANGED <<input_urls, run, phase>>
    /\ UNCHANGED <<arlVars, rlVars, pm_obs, emVars, bkVars, tkVars, crVars>>

\* a task that waited for the per-origin permit was handed one
DomainPermitGranted(w) ==
    /\ Runnable(w, "dsem_wait")
    /\ w \in dsems[netloc(task[w].url)].handed
    /\ Becomes(global_acquire(
                  event([St EXCEPT !.dsems[netloc(task[w].url)].handed = @ \ {w}],
                        w, "domain_permit"), w))
    /\ UNCHANGED <<input_urls, run, phase>>
    /\ UNCHANGED <<arlVars, rlVars, pm_obs, emVars, bkVars, tkVars, crVars>>

\* a task that waited for the global permit was handed one
GlobalPermitGranted(w) ==
    /\ Runnable(w, "gsem_wait")
    /\ w \in gsem.handed
    /\ Becomes(start_fetch(event([St EXCEPT !.gsem.handed = @ \ {w}], w,
                                  "global_permit"), w))
    /\ UNCHANGED <<input_urls, run, phase>>
    /\ UNCHANGED <<arlVars, rlVars, pm_obs, emVars, bkVars, tkVars, crVars>>

\* crawler.arun returns, with success or not
FetchReturn(w) ==
    /\ Runnable(w, "fetch")
    /\ \/ Becomes(fetch_succeeded(St, w))
       \/ \E sig \in Signals : Becomes(fetch_failed(signalled(St, sig), w))
    /\ UNCHANGED <<input_urls, run, phase>>
    /\ UNCHANGED <<arlVars, rlVars, pm_obs, emVars, bkVars, tkVars, crVars>>

\* line 364: the backoff sleep is over; _scrape_single(url, retry_count + 1)
BackoffWake(w) ==
    /\ Runnable(w, "backoff")
    /\ \E tok \in Tokens, sig \in Signals :
          Becomes(_scrape_single(
                     signalled([St EXCEPT !.task[w].retry_count = @ + 1], sig), w, tok))
    /\ UNCHANGED <<input_urls, run, phase>>
    /\ UNCHANGED <<arlVars, rlVars, pm_obs, emVars, bkVars, tkVars, crVars>>

cancelled_marking_failed(s, w) ==
    [s EXCEPT !.pm = mark_failed(@, s.task[w].url, "cancelled"),
              !.task[w].pc = "done", !.task[w].cancel = FALSE,
              !.hist.aborted = @ \cup {<<run, s.task[w].url>>},
              !.hist.cancelled = @ \cup {<<run, w>>}]

\* CancelledError is raised in a cancelled task at the point where it is
\* suspended; it is no Exception, so line 346 does not catch it and process_url
\* ends without a result
cancelled(s, w) ==
    LET d == netloc(s.task[w].url)
        pc == s.task[w].pc
        s1 == CASE pc = "gl_wait" -> [s EXCEPT !.glim = lock_cancel(@, w)]
                [] pc = "gl_sleep" -> [s EXCEPT !.glim = lock_release(@)]
                [] pc = "dl_wait" -> [s EXCEPT !.dlims[d] = lock_cancel(@, w)]
                [] pc = "dl_sleep" -> [s EXCEPT !.dlims[d] = lock_release(@)]
                [] pc = "dsem_wait" -> [s EXCEPT !.dsems[d] = sem_cancel(@, w)]
                [] pc = "gsem_wait" -> [s EXCEPT !.gsem = sem_cancel(@, w)]
                [] pc = "fetch" -> release_permits(s, w)
                [] OTHER -> s
    IN [s1 EXCEPT !.task[w].pc = "done", !.task[w].cancel = FALSE,
                  !.hist.aborted = @ \cup {<<run, s.task[w].url>>},
                  !.hist.cancelled = @ \cup {<<run, w>>}]

Cancelled(w) ==
    /\ task[w].cancel
    /\ Becomes(cancelled(St, w))
    /\ UNCHANGED <<input_urls, run, phase>>
    /\ UNCHANGED <<arlVars, rlVars, pm_obs, emVars, bkVars, tkVars, crVars>>

RequestShutdown ==
    /\ phase \in {"created", "running"}
    /\ ~scraper._shutdown
    /\ Becomes(request_shutdown(St))
    /\ UNCHANGED <<input_urls, run, phase>>
    /\ UNCHANGED <<arlVars, rlVars, pm_obs, emVars, bkVars, tkVars, crVars>>

\* scrape_urls, lines 393-447: the worklist is set, the remaining URLs are taken
\* when they are fewer, the tasks are created
scrape_urls_start(s, list) ==
    LET pm1 == set_urls(s.pm, list)
        remaining == get_remaining_urls(pm1)
        todo == IF Len(remaining) < Len(list) THEN remaining ELSE list
    IN [s EXCEPT !.pm = pm1,
                 !.scraper.stats.total = Len(todo),
                 !.task = [w \in Tasks |->
                             IF w <= Len(todo)
                             THEN [url |-> todo[w], pc |-> "created",
                                   retry_count |-> 0, cancel |-> FALSE,
                                   attempts |-> 0, trace |-> <<>>]
                             ELSE NoTask]]

ScrapeStart ==
    /\ phase = "created"
    /\ Becomes(scrape_urls_start(St, input_urls))
    /\ phase' = "running"
    /\ UNCHANGED <<input_urls, run>>
    /\ UNCHANGED <<arlVars, rlVars, pm_obs, emVars, bkVars, tkVars, crVars>>

\* scrape_urls, lines 449-464: gather is over; pause() or finish(). A signal that
\* arrives once line 458 has read the flag sets it too late for this choice
scrape_urls_end(s) ==
    [s EXCEPT !.pm = IF s.scraper._shutdown THEN pause(@) ELSE finish(@, "completed")]

ScrapeReturn ==
    /\ phase = "running"
    /\ \A w \in Tasks : task[w].pc \in {"none", "done"}
    /\ \E sig \in Signals : Becomes(signalled(scrape_urls_end(St), sig))
    /\ phase' = "returned"
    /\ UNCHANGED <<input_urls, run>>
    /\ UNCHANGED <<arlVars, rlVars, pm_obs, emVars, bkVars, tkVars, crVars>>

\* the process ends; a new one is started with the same task id and URL list
Restart ==
    /\ phase = "returned"
    /\ run < MaxRuns
    /\ run' = run + 1
    /\ phase' = "created"
    /\ Becomes(ConcurrentScraper_init(pm.file) @@ [hist |-> hist])
    /\ UNCHANGED input_urls
    /\ UNCHANGED <<arlVars, rlVars, pm_obs, emVars, bkVars, tkVars, crVars>>

HistInit ==
    [fetched |-> {}, marked |-> {}, interrupted |-> {}, aborted |-> {}, cancelled |-> {}]

\* the state after ConcurrentScraper(config), but for its ProgressManager
Constructed ==
    LET s == ConcurrentScraper_init(NoFile)
    IN /\ scraper = s.scraper
       /\ task = s.task
       /\ glim = s.glim
       /\ dlims = s.dlims
       /\ gsem = s.gsem
       /\ dsems = s.dsems
       /\ results = s.results
       /\ hist = HistInit
       /\ run = 1

IdleSC == input_urls = <<>> /\ phase = "idle" /\ Constructed

(***************************************************************************)
(* ExperienceManager (crawl4ai_wrapper.py)                                 *)
(*                                                                         *)
(* A path is the sequence of its characters.  self.patterns maps an origin *)
(* to its url_patterns, a dict that keeps the order of insertion: a        *)
(* sequence of entries [shape, rec].                                       *)
(***************************************************************************)
Digits == {"0", "1", "2", "3", "4", "5", "6", "7", "8", "9"}

Articles == <<"a", "r", "t", "i", "c", "l", "e", "s">>
Comments == <<"c", "o", "m", "m", "e", "n", "t", "s">>

PathArticles42 == <<"/">> \o Articles \o <<"/", "4", "2">>
PathArticles7 == <<"/">> \o Articles \o <<"/", "7">>
PathArticles42Comments == PathArticles42 \o <<"/">> \o Comments
PathArticles == <<"/">> \o Articles
PathPage == <<"/", "p", "=", "1", "2">>
ShapeArticlesStar == <<"/">> \o Articles \o <<"/", "*">>

EMDomains == {"a.example", "b.example"}
EMPaths == {PathArticles42, PathArticles7, PathArticles42Comments, PathArticles, PathPage}

\* urlparse(url): netloc and path
EMUrls == [netloc : EMDomains, path : EMPaths]

\* the description a caller passes in pattern_data, or none
PatternData == {"none", "desc1", "desc2"}

NoRecord == [status |-> "none"]
NoTime == 0

\* bound of the SpecEM state space
MaxEMCalls == 3

RECURSIVE DropDigits(_)
DropDigits(s) ==
    IF s # <<>> /\ Head(s) \in Digits THEN DropDigits(Tail(s)) ELSE s

RECURSIVE re_sub_digits(_, _)
\* re.sub(lead + r'\d+', lead + '*', s)
re_sub_digits(lead, s) ==
    IF s = <<>> THEN <<>>
    ELSE IF Head(s) = lead /\ Len(s) >= 2 /\ s[2] \in Digits
    THEN <<lead, "*">> \o re_sub_digits(lead, DropDigits(Tail(s)))
    ELSE <<Head(s)>> \o re_sub_digits(lead, Tail(s))

_url_to_pattern(url) == re_sub_digits("=", re_sub_digits("/", url.path))

RECURSIVE fnmatch(_, _)
\* fnmatch.fnmatch(name, pat) on POSIX, for patterns without '[': '*' stands for
\* any characters, '?' for one, every other character for itself
fnmatch(name, pat) ==
    IF pat = <<>> THEN name = <<>>
    ELSE IF Head(pat) = "*"
    THEN \E k \in 0..Len(name) : fnmatch(SubSeq(name, k + 1, Len(name)), Tail(pat))
    ELSE IF name = <<>> THEN FALSE
    ELSE IF Head(pat) = "?" \/ Head(pat) = Head(name)
    THEN fnmatch(Tail(name), Tail(pat))
    ELSE FALSE

\* _load_patterns when PATTERNS_FILE does not exist
ExperienceManager_init ==
    [_meta |-> [total_patterns |-> 0, total_successes |-> 0],
     domains |-> [d \in EMDomains |-> [present |-> FALSE, url_patterns |-> <<>>]]]

\* PATTERNS_FILE does not exist
NoPatternsFile == [status |-> "absent"]

\* a record an earlier process wrote, with timestamps before this process's clock
StoredRecord ==
    [description |-> "desc1", success_count |-> 2, fail_count |-> 1,
     last_success |-> -1, last_fail |-> -2, created_at |-> -3, status |-> "active"]

\* the _meta of a PATTERNS_FILE with one record: as save_pattern left it, or
\* edited by hand since
StoredMeta ==
    {[total_patterns |-> 1, total_successes |-> 2],
     [total_patterns |-> 3, total_successes |-> 0]}

\* the stored record as it was written, or with its status set by hand to retire it
StoredRecords == {StoredRecord, [StoredRecord EXCEPT !.status = "retired"]}

\* the documents PATTERNS_FILE can hold when the process starts
PatternsFiles ==
    {[_meta |-> meta,
      domains |-> [d \in EMDomains |->
                     IF d = "a.example"
                     THEN [present |-> TRUE,
                           url_patterns |-> <<[shape |-> ShapeArticlesStar,
                                               rec |-> stored]>>]
                     ELSE [present |-> FALSE, url_patterns |-> <<>>]]] :
        meta \in StoredMeta, stored \in StoredRecords}

\* lines 122-130: json.load of the file, or the empty store
_load_patterns(file) ==
    IF file = NoPatternsFile THEN ExperienceManager_init ELSE file

\* the position of a shape in url_patterns, 0 when absent
IndexOf(url_patterns, shape) ==
    LET at == {i \in 1..Len(url_patterns) : url_patterns[i].shape = shape}
    IN IF at = {} THEN 0 ELSE CHOOSE i \in at : TRUE

find_pattern_exact_only(e, url) ==
    LET ps == e.domains[url.netloc].url_patterns
        i == IndexOf(ps, _url_to_pattern(url))
    IN IF i # 0 THEN ps[i].rec ELSE NoRecord

find_pattern(e, url) ==
    LET url_pattern == _url_to_pattern(url)
        ps == e.domains[url.netloc].url_patterns
        i == IndexOf(ps, url_pattern)
        wild == {j \in 1..Len(ps) : fnmatch(url_pattern, ps[j].shape)}
    IN IF ~e.domains[url.netloc].present THEN NoRecord
       ELSE IF i # 0 THEN ps[i].rec
       ELSE IF wild # {} THEN ps[CHOOSE j \in wild : \A k \in wild : j <= k].rec
       ELSE NoRecord

RECURSIVE SumSuccesses(_)
\* the sum of success_count over the records of one url_patterns
SumSuccesses(url_patterns) ==
    IF url_patterns = <<>> THEN 0
    ELSE Head(url_patterns).rec.success_count + SumSuccesses(Tail(url_patterns))

RECURSIVE CountPatterns(_, _)
CountPatterns(e, D) ==
    IF D = {} THEN 0
    ELSE LET d == CHOOSE x \in D : TRUE
         IN Len(e.domains[d].url_patterns) + CountPatterns(e, D \ {d})

RECURSIVE CountSuccesses(_, _)
CountSuccesses(e, D) ==
    IF D = {} THEN 0
    ELSE LET d == CHOOSE x \in D : TRUE
         IN SumSuccesses(e.domains[d].url_patterns) + CountSuccesses(e, D \ {d})

\* lines 201-210: _meta is recomputed from the records
recount_skipped(e) == e

recount(e) ==
    [e EXCEPT !._meta.total_patterns = CountPatterns(e, EMDomains),
              !._meta.total_successes = CountSuccesses(e, EMDomains)]

merge_resetting_failures(existing, description, t) ==
    [description |-> description,
     success_count |-> (IF existing # NoRecord THEN existing.success_count ELSE 0) + 1,
     fail_count |-> 0, last_success |-> t, last_fail |-> NoTime,
     created_at |-> t, status |-> "active"]

\* lines 186-199: the record written by save_pattern; existing is the record of
\* the shape, or NoRecord
merge(existing, description, t) ==
    LET old == existing # NoRecord
    IN [description |-> IF description # "none" THEN description
                        ELSE IF old THEN existing.description ELSE "",
        success_count |-> (IF old THEN existing.success_count ELSE 0) + 1,
        fail_count |-> IF old THEN existing.fail_count ELSE 0,
        last_success |-> t,
        last_fail |-> IF old THEN existing.last_fail ELSE NoTime,
        created_at |-> IF old THEN existing.created_at ELSE t,
        status |-> "active"]

save_pattern(e, url, description, t) ==
    LET d == url.netloc
        url_pattern == _url_to_pattern(url)
        ps == e.domains[d].url_patterns
        i == IndexOf(ps, url_pattern)
        entry == [shape |-> url_pattern,
                  rec |-> merge(IF i # 0 THEN ps[i].rec ELSE NoRecord, description, t)]
    IN recount([e EXCEPT !.domains[d].present = TRUE,
                         !.domains[d].url_patterns =
                            IF i # 0 THEN [ps EXCEPT ![i] = entry] ELSE Append(ps, entry)])

record_failure_creating(e, url, t) ==
    LET d == url.netloc
        ps == e.domains[d].url_patterns
        i == IndexOf(ps, _url_to_pattern(url))
        fresh == [description |-> "", success_count |-> 0, fail_count |-> 1,
                  last_success |-> NoTime, last_fail |-> t, created_at |-> t,
                  status |-> "active"]
    IN IF i # 0
       THEN [e EXCEPT !.domains[d].url_patterns[i].rec.fail_count = @ + 1,
                      !.domains[d].url_patterns[i].rec.last_fail = t]
       ELSE [e EXCEPT !.domains[d].present = TRUE,
                      !.domains[d].url_patterns =
                         Append(ps, [shape |-> _url_to_pattern(url), rec |-> fresh])]

\* lines 214-225: the record of the shape, if there is one, counts the failure
record_failure(e, url, t) ==
    LET d == url.netloc
        i == IndexOf(e.domains[d].url_patterns, _url_to_pattern(url))
    IN IF i # 0
       THEN [e EXCEPT !.domains[d].url_patterns[i].rec.fail_count = @ + 1,
                      !.domains[d].url_patterns[i].rec.last_fail = t]
       ELSE e

\* The observer: the last call, its URL, what find_pattern returned, the store
\* before the call, the number of calls made (it is the clock of the timestamps),
\* whether save_pattern was called since the store was loaded.
EMObsInit ==
    [op |-> "init", url |-> [netloc |-> "a.example", path |-> PathArticles],
     found |-> NoRecord, before |-> ExperienceManager_init, calls |-> 0,
     saved |-> FALSE, loaded |-> ExperienceManager_init]

EMObserve(op, url, found) ==
    [op |-> op, url |-> url, found |-> found, before |-> em, calls |-> em_obs.calls + 1,
     saved |-> em_obs.saved \/ op = "save_pattern", loaded |-> em_obs.loaded]

SavePattern ==
    /\ em_obs.calls < MaxEMCalls
    /\ \E url \in EMUrls, description \in PatternData :
          /\ em' = save_pattern(em, url, description, em_obs.calls + 1)
          /\ em_obs' = EMObserve("save_pattern", url, NoRecord)
    /\ UNCHANGED <<arlVars, pmVars, rlVars, scVars, bkVars, tkVars, crVars>>

RecordFailure ==
    /\ em_obs.calls < MaxEMCalls
    /\ \E url \in EMUrls :
          /\ em' = record_failure(em, url, em_obs.calls + 1)
          /\ em_obs' = EMObserve("record_failure", url, NoRecord)
    /\ UNCHANGED <<arlVars, pmVars, rlVars, scVars, bkVars, tkVars, crVars>>

FindPattern ==
    /\ em_obs.calls < MaxEMCalls
    /\ \E url \in EMUrls :
          /\ em' = em
          /\ em_obs' = EMObserve("find_pattern", url, find_pattern(em, url))
    /\ UNCHANGED <<arlVars, pmVars, rlVars, scVars, bkVars, tkVars, crVars>>

IdleEM == em = ExperienceManager_init /\ em_obs = EMObsInit

(***************************************************************************)
(* The retry backoff of _scrape_single (concurrent_scraper.py, lines       *)
(* 351-362).  Delays are in tenths of a second.                            *)
(***************************************************************************)
DelayUnit == 10

retry_base_delay == 5 * DelayUnit
retry_max_delay == 60 * DelayUnit

\* bound of the SpecBackoff state space: the largest retry_count
MaxRetryCount == 6

\* the values of retry_base_delay and retry_max_delay a configuration holds
RetryDelays ==
    {[base |-> retry_base_delay, max |-> retry_max_delay],
     [base |-> 1 * DelayUnit, max |-> 30 * DelayUnit],
     [base |-> 7 * DelayUnit, max |-> 5 * DelayUnit]}

backoff_delay_uncapped(config, retry_count) == config.base * 2^retry_count

\* lines 355-358: min(retry_base_delay * 2 ** retry_count, retry_max_delay)
backoff_delay(config, retry_count) ==
    Min(config.base * 2^retry_count, config.max)

\* line 359: random.uniform(0, delay * 0.1)
Jitters(delay) == 0..(delay \div 10)

Backoff_init(config) ==
    [config |-> config, retry_count |-> 0, delay |-> 0, jitter |-> 0, slept |-> FALSE]

\* a failed attempt number retry_count sleeps before the retry
BackoffSleep ==
    /\ \E retry_count \in 0..MaxRetryCount :
          LET delay == backoff_delay(backoff.config, retry_count)
          IN \E j \in Jitters(delay) :
                backoff' = [backoff EXCEPT !.retry_count = retry_count,
                                           !.delay = delay, !.jitter = j,
                                           !.slept = TRUE]
    /\ UNCHANGED <<arlVars, pmVars, rlVars, scVars, emVars, tkVars, crVars>>

IdleBackoff ==
    backoff = Backoff_init([base |-> retry_base_delay, max |-> retry_max_delay])

(***************************************************************************)
(* ProgressManager objects on PROGRESS_DIR (progress_manager.py, lines     *)
(* 114-165): the task id is given, derived from start_url, or made from    *)
(* the wall clock; the progress file of the task id is loaded when it      *)
(* exists.  A document is the record of its JSON keys; a person may edit   *)
(* a document between two processes.                                       *)
(***************************************************************************)
\* bounds of the SpecTask state space
MaxManagers == 2
MaxTaskCalls == 4

\* task_id=None
NoTaskId == "None"

TaskIdArgs == {NoTaskId, "job"}

\* start URLs: S1 and S2 on one host, S3 on another; S4 is a URL of S1's host
\* whose md5 begins with the 8 hex digits of S1's
StartUrls == {"S1", "S2", "S3", "S4"}

\* urlparse(start_url).netloc
start_netloc(url) == IF url = "S3" THEN "b.example" ELSE "a.example"

\* hashlib.md5(start_url.encode()).hexdigest()[:8]
md5_8(url) == IF url = "S2" THEN "3f2a9c01" ELSE "9635b10f"

\* netloc.replace(".", "_")
replace_dots(host) == IF host = "a.example" THEN "a_example" ELSE "b_example"

\* datetime.now().strftime('%Y%m%d_%H%M%S'): the second of the wall clock
Times == {"20260101_000000", "20260101_000001"}

derive_task_id_timestamped(task_id, start_url, t) == <<"scrape", t>>

\* lines 137-148
derive_task_id(task_id, start_url, t) ==
    IF task_id # NoTaskId THEN <<task_id>>
    ELSE IF start_url # NoUrl
    THEN <<replace_dots(start_netloc(start_url)), md5_8(start_url)>>
    ELSE <<"scrape", t>>

TaskIds ==
    {derive_task_id(a, u, t) : a \in TaskIdArgs, u \in StartUrls \cup {NoUrl}, t \in Times}

\* __init__ raises when _load does; otherwise the object, with the state loaded
\* from the file or a new one
Manager(task_id, start_url, t, auto_save) ==
    LET id == derive_task_id(task_id, start_url, t)
        file == progress_dir[id]
        raised == file # NoFile /\ _load(file) = TypeError
    IN [task_id_arg |-> task_id, start_url |-> start_url, task_id |-> id,
        raised |-> raised,
        pm |-> ProgressManager_init(IF raised THEN NoFile ELSE file, auto_save, 1)]

PDObsInit == [op |-> "init", calls |-> 0, writer |-> [id \in TaskIds |-> 0]]

PDObserve(op, id, i, wrote) ==
    [op |-> op, calls |-> pd_obs.calls + 1,
     writer |-> IF wrote THEN [pd_obs.writer EXCEPT ![id] = i] ELSE pd_obs.writer]

Construct ==
    /\ pd_obs.calls < MaxTaskCalls
    /\ Len(managers) < MaxManagers
    /\ \E task_id \in TaskIdArgs, start_url \in StartUrls \cup {NoUrl}, t \in Times,
          auto_save \in BOOLEAN :
          /\ managers' = Append(managers, Manager(task_id, start_url, t, auto_save))
          /\ pd_obs' = PDObserve("construct", derive_task_id(task_id, start_url, t), 0, FALSE)
    /\ UNCHANGED progress_dir
    /\ UNCHANGED <<arlVars, pmVars, rlVars, scVars, emVars, bkVars, crVars>>

\* manager i records a completion; the document is written when save() ran
ManagerMarkCompleted(i) ==
    /\ pd_obs.calls < MaxTaskCalls
    /\ i \in 1..Len(managers)
    /\ ~managers[i].raised
    /\ \E url \in {"A", "B"} :
          LET m == mark_completed(managers[i].pm, url, "page")
              wrote == Wrote("mark_completed", m)
              id == managers[i].task_id
          IN /\ managers' = [managers EXCEPT ![i].pm = m]
             /\ progress_dir' = IF wrote THEN [progress_dir EXCEPT ![id] = m.file]
                                ELSE progress_dir
             /\ pd_obs' = PDObserve("mark_completed", id, i, wrote)
    /\ UNCHANGED <<arlVars, pmVars, rlVars, scVars, emVars, bkVars, crVars>>

ManagerSave(i) ==
    /\ pd_obs.calls < MaxTaskCalls
    /\ i \in 1..Len(managers)
    /\ ~managers[i].raised
    /\ LET m == save(managers[i].pm)
           id == managers[i].task_id
       IN /\ managers' = [managers EXCEPT ![i].pm = m]
          /\ progress_dir' = [progress_dir EXCEPT ![id] = m.file]
          /\ pd_obs' = PDObserve("save", id, i, TRUE)
    /\ UNCHANGED <<arlVars, pmVars, rlVars, scVars, emVars, bkVars, crVars>>

\* a key that is no field of ProgressState
UnknownField == "reviewer_comment"

\* a person adds a key to a stored document
ExternalEdit ==
    /\ pd_obs.calls < MaxTaskCalls
    /\ \E id \in TaskIds :
          /\ progress_dir[id] # NoFile
          /\ UnknownField \notin DOMAIN progress_dir[id]
          /\ progress_dir' =
                [progress_dir EXCEPT ![id] =
                    [f \in DOMAIN progress_dir[id] \cup {UnknownField} |->
                        IF f = UnknownField THEN "edited" ELSE progress_dir[id][f]]]
          /\ pd_obs' = PDObserve("edit", id, 0, FALSE)
    /\ UNCHANGED managers
    /\ UNCHANGED <<arlVars, pmVars, rlVars, scVars, emVars, bkVars, crVars>>

IdleTask ==
    /\ progress_dir = [id \in TaskIds |-> NoFile]
    /\ managers = <<>>
    /\ pd_obs = PDObsInit

(***************************************************************************)
(* IntelligentCrawler (crawl4ai_wrapper.py): crawl_single and the two      *)
(* crawl sessions, crawl_with_pagination and discover_and_crawl_series.    *)
(* Delays are in seconds.                                                  *)
(***************************************************************************)
\* CrawlConfig defaults
min_delay == 2
max_delay == 5

\* bounds of the SpecCrawl state space: CrawlConfig.max_pages and the number of
\* sessions run on one crawler object
max_pages == 3
MaxSessions == 2

\* the pages of one site; two of them have the same shape
CrawlUrls == {u \in EMUrls : u.netloc = "a.example"
                              /\ u.path \in {PathArticles42, PathArticles7, PathPage}}

\* no 'next' link on the page
NoLink == [netloc |-> "none", path |-> <<>>]

\* what crawler.arun does: result.success, result.success = False, an exception
FetchOutcomes == {"success", "failure", "exception"}

\* the link lists find_series_links can return (never the start URL, line 472),
\* cut to max_pages - 1 (line 707)
SeriesLinks ==
    UNION {[1..n -> CrawlUrls] : n \in 0..(max_pages - 1)}

\* lines 320-326: random.uniform(min_delay * 2^level, max_delay * 2^level); the
\* two ends of the interval stand for the draw
get_delay(r) ==
    LET multiplier == 2 ^ r.block_level
    IN {min_delay * multiplier, max_delay * multiplier}

\* lines 515-520
IntelligentCrawler_init ==
    [visited_urls |-> {}, learned_pattern |-> NoRecord,
     session |-> "none", sessions |-> 0,
     rate_limiter |-> AdaptiveRateLimiter_init,
     single |-> AdaptiveRateLimiter_init,
     current_url |-> NoLink, page_count |-> 0, urls_to_crawl |-> <<>>,
     results |-> <<>>, log |-> <<>>]

\* lines 528-537: the pattern found becomes self.learned_pattern
_check_experience(c, e, url) ==
    LET pattern == find_pattern(e, url)
    IN IF pattern # NoRecord THEN [c EXCEPT !.learned_pattern = pattern] ELSE c

\* an entry of the session's log: a fetch and the level of the limiter that got
\* its report, or a sleep of the session and the level its delay was drawn at
Fetched(ok, level) == [kind |-> "fetch", ok |-> ok, level |-> level, delay |-> 0]
Slept(level, delay) == [kind |-> "wait", ok |-> TRUE, level |-> level, delay |-> delay]

\* lines 539-629: crawl_single builds a rate limiter of its own (line 555) and
\* reports the outcome to it and to the experience store
crawl_single(c, e, url, outcome, t) ==
    LET c1 == IF c.learned_pattern = NoRecord THEN _check_experience(c, e, url) ELSE c
        rate_limiter == AdaptiveRateLimiter_init
        ok == outcome = "success"
        reported == IF ok THEN report_success(rate_limiter)
                    ELSE report_failure(rate_limiter, NoStatus)
    IN [crawler |-> [c1 EXCEPT !.single = reported,
                               !.log = Append(@, Fetched(ok, reported.block_level))],
        em |-> IF ok THEN save_pattern(e, url, "auto", t) ELSE record_failure(e, url, t),
        success |-> ok]

\* AdaptiveRateLimiter.wait on the session's limiter (lines 328-332)
session_wait(c, delay) ==
    [c EXCEPT !.rate_limiter = wait(@),
              !.log = Append(@, Slept(c.rate_limiter.block_level, delay))]

\* the session returns its results
session_return(c) == [c EXCEPT !.session = "none", !.sessions = @ + 1]

\* lines 631-640: crawl_with_pagination up to the loop
CrawlWithPagination ==
    /\ crawler.session = "none"
    /\ crawler.sessions < MaxSessions
    /\ \E start_url \in CrawlUrls :
          crawler' = [_check_experience(crawler, em, start_url) EXCEPT
                         !.session = "pagination",
                         !.rate_limiter = AdaptiveRateLimiter_init,
                         !.current_url = start_url, !.page_count = 0,
                         !.results = <<>>, !.log = <<>>]
    /\ UNCHANGED <<arlVars, pmVars, rlVars, scVars, emVars, bkVars, tkVars>>

\* lines 641-683: one pass of the loop, or the return
PaginationPage ==
    /\ crawler.session = "pagination"
    /\ IF \/ crawler.current_url = NoLink
          \/ crawler.page_count >= max_pages
          \/ crawler.current_url \in crawler.visited_urls
       THEN /\ crawler' = session_return(crawler)
            /\ UNCHANGED emVars
       ELSE \E outcome \in FetchOutcomes, next_url \in CrawlUrls \cup {NoLink},
               delay \in get_delay(crawler.rate_limiter) :
               LET url == crawler.current_url
                   r == crawl_single([crawler EXCEPT !.visited_urls = @ \cup {url}],
                                     em, url, outcome, em_obs.calls + 1)
                   c == [r.crawler EXCEPT !.results = Append(@, [url |-> url, success |-> r.success]),
                                          !.page_count = @ + 1]
               IN /\ em' = r.em
                  /\ em_obs' = EMObserve(IF r.success THEN "save_pattern"
                                         ELSE "record_failure", url, NoRecord)
                  /\ crawler' =
                        IF ~r.success \/ next_url = NoLink \/ next_url = url
                        THEN session_return(c)
                        ELSE session_wait([c EXCEPT !.current_url = next_url], delay)
    /\ UNCHANGED <<arlVars, pmVars, rlVars, scVars, bkVars, tkVars>>

\* lines 685-711: discover_and_crawl_series up to the loop
DiscoverAndCrawlSeries ==
    /\ crawler.session = "none"
    /\ crawler.sessions < MaxSessions
    /\ \E start_url \in CrawlUrls, outcome \in FetchOutcomes :
       \E series_links \in {l \in SeriesLinks : \A k \in DOMAIN l : l[k] # start_url} :
          LET r == crawl_single([crawler EXCEPT !.results = <<>>, !.log = <<>>],
                                em, start_url, outcome, em_obs.calls + 1)
              first == [r.crawler EXCEPT
                           !.results = <<[url |-> start_url, success |-> r.success]>>]
              c == [first EXCEPT !.visited_urls = @ \cup {start_url}]
          IN /\ em' = r.em
             /\ em_obs' = EMObserve(IF r.success THEN "save_pattern"
                                    ELSE "record_failure", start_url, NoRecord)
             /\ crawler' =
                   IF ~r.success THEN session_return(first)
                   ELSE IF series_links = <<>> THEN session_return(c)
                   ELSE [_check_experience(c, r.em, start_url) EXCEPT
                            !.session = "series",
                            !.rate_limiter = AdaptiveRateLimiter_init,
                            !.urls_to_crawl = series_links]
    /\ UNCHANGED <<arlVars, pmVars, rlVars, scVars, bkVars, tkVars>>

\* lines 713-736: one pass of the loop, or the return
SeriesPage ==
    /\ crawler.session = "series"
    /\ IF crawler.urls_to_crawl = <<>>
       THEN /\ crawler' = session_return(crawler)
            /\ UNCHANGED emVars
       ELSE LET url == Head(crawler.urls_to_crawl)
                rest == [crawler EXCEPT !.urls_to_crawl = Tail(@)]
            IN IF url \in crawler.visited_urls
               THEN /\ crawler' = rest
                    /\ UNCHANGED emVars
               ELSE \E outcome \in FetchOutcomes, delay \in get_delay(crawler.rate_limiter) :
                       LET r == crawl_single([rest EXCEPT !.visited_urls = @ \cup {url}],
                                             em, url, outcome, em_obs.calls + 1)
                           c == [r.crawler EXCEPT
                                    !.results = Append(@, [url |-> url, success |-> r.success])]
                       IN /\ em' = r.em
                          /\ em_obs' = EMObserve(IF r.success THEN "save_pattern"
                                                 ELSE "record_failure", url, NoRecord)
                          /\ crawler' = session_wait(c, delay)
    /\ UNCHANGED <<arlVars, pmVars, rlVars, scVars, bkVars, tkVars>>

IdleCrawl == crawler = IntelligentCrawler_init

(***************************************************************************)
(* Specifications of the single components                                 *)
(***************************************************************************)
InitARL == IdleARL /\ IdlePM /\ IdleRL /\ IdleSC /\ IdleEM /\ IdleBackoff /\ IdleTask /\ IdleCrawl

NextARL == ReportSuccess \/ ReportFailure \/ Wait

SpecARL == InitARL /\ [][NextARL]_vars

InitPM ==
    /\ \E auto_save \in BOOLEAN, save_interval \in 1..MaxSaveInterval :
          pm = ProgressManager_init(NoFile, auto_save, save_interval)
    /\ pm_obs = PMObsInit
    /\ IdleARL /\ IdleRL /\ IdleSC /\ IdleEM /\ IdleBackoff /\ IdleTask /\ IdleCrawl

NextPM ==
    \/ SetUrls
    \/ AddUrls
    \/ MarkCompleted
    \/ MarkFailed
    \/ Pause
    \/ Resume
    \/ Finish
    \/ Fail
    \/ Reset

SpecPM == InitPM /\ [][NextPM]_vars

InitRL ==
    /\ \E rate \in Rates : rl = TokenBucketRateLimiter_init(rate, NoCapacity, 0)
    /\ rl_caller = [c \in RLCallers |-> [pc |-> "idle", wake |-> 0]]
    /\ now = 0
    /\ rl_admitted = <<>>
    /\ IdleARL /\ IdlePM /\ IdleSC /\ IdleEM /\ IdleBackoff /\ IdleTask /\ IdleCrawl

NextRL ==
    \/ \E c \in RLCallers : RLAcquire(c)
    \/ \E c \in RLCallers : RLLocked(c)
    \/ \E c \in RLCallers : RLWake(c)
    \/ \E c \in RLCallers : RLCancel(c)
    \/ Tick

SpecRL == InitRL /\ [][NextRL]_vars

InitEM ==
    /\ \E file \in PatternsFiles \cup {NoPatternsFile} :
          /\ em = _load_patterns(file)
          /\ em_obs = [EMObsInit EXCEPT !.before = em, !.loaded = em]
    /\ IdleARL /\ IdlePM /\ IdleRL /\ IdleSC /\ IdleBackoff /\ IdleTask /\ IdleCrawl

NextEM == SavePattern \/ RecordFailure \/ FindPattern

SpecEM == InitEM /\ [][NextEM]_vars

InitCrawl ==
    /\ \E file \in PatternsFiles \cup {NoPatternsFile} :
          /\ em = _load_patterns(file)
          /\ em_obs = [EMObsInit EXCEPT !.before = em, !.loaded = em]
    /\ crawler = IntelligentCrawler_init
    /\ IdleARL /\ IdlePM /\ IdleRL /\ IdleSC /\ IdleBackoff /\ IdleTask

NextCrawl ==
    \/ CrawlWithPagination
    \/ PaginationPage
    \/ DiscoverAndCrawlSeries
    \/ SeriesPage

SpecCrawl == InitCrawl /\ [][NextCrawl]_vars

InitBackoff ==
    /\ \E config \in RetryDelays : backoff = Backoff_init(config)
    /\ IdleARL /\ IdlePM /\ IdleRL /\ IdleSC /\ IdleEM /\ IdleTask /\ IdleCrawl

NextBackoff == BackoffSleep

SpecBackoff == InitBackoff /\ [][NextBackoff]_vars

InitTask == IdleTask /\ IdleARL /\ IdlePM /\ IdleRL /\ IdleSC /\ IdleEM /\ IdleBackoff /\ IdleCrawl

NextTask ==
    \/ Construct
    \/ \E i \in 1..MaxManagers : ManagerMarkCompleted(i)
    \/ \E i \in 1..MaxManagers : ManagerSave(i)
    \/ ExternalEdit

SpecTask == InitTask /\ [][NextTask]_vars

(***************************************************************************)
(* Specification of the scraper: runs of scrape_urls on one task id, each  *)
(* in a new process, with request_shutdown() at any time                   *)
(***************************************************************************)
Init ==
    /\ input_urls \in ScrapeInputs
    /\ phase = "created"
    /\ Constructed
    /\ pm = ConcurrentScraper_init(NoFile).pm
    /\ pm_obs = PMObsInit
    /\ IdleARL /\ IdleRL /\ IdleEM /\ IdleBackoff /\ IdleTask /\ IdleCrawl

TaskStep(w) ==
    \/ TaskStart(w)
    \/ GlobalLimiterLocked(w)
    \/ GlobalLimiterWake(w)
    \/ DomainLimiterLocked(w)
    \/ DomainLimiterWake(w)
    \/ JitterWake(w)
    \/ DomainPermitGranted(w)
    \/ GlobalPermitGranted(w)
    \/ FetchReturn(w)
    \/ BackoffWake(w)
    \/ Cancelled(w)

Next ==
    \/ ScrapeStart
    \/ \E w \in Tasks : TaskStep(w)
    \/ RequestShutdown
    \/ ScrapeReturn
    \/ Restart

Spec == Init /\ [][Next]_vars

\* The event loop runs every task that can run, every sleep ends and every
\* crawl returns; no request_shutdown() and no new run has to happen.
FairSpec ==
    /\ Spec
    /\ WF_vars(ScrapeStart)
    /\ \A w \in Tasks : WF_vars(TaskStep(w))
    /\ WF_vars(ScrapeReturn)

(***************************************************************************)
(* C9: report_failure(status_code) sets block_level to                     *)
(* min(current + e, Severe), e = 2 for 429 and 403 and e = 1 otherwise;     *)
(* two consecutive report_failure(429) calls starting at None reach        *)
(* Severe; block_level never leaves None..Severe.                          *)
(***************************************************************************)
C9_BackoffEscalation ==
    LET e == IF arl_obs.code = 429 \/ arl_obs.code = 403 THEN 2 ELSE 1
    IN /\ arl.block_level \in NONE..SEVERE
       /\ arl_obs.op = "report_failure" =>
             /\ arl.block_level >= arl_obs.level_before
             /\ arl.block_level =
                   (IF arl_obs.level_before + e > SEVERE THEN SEVERE
                    ELSE arl_obs.level_before + e)
       /\ (/\ arl_obs.op = "report_failure" /\ arl_obs.code = 429
           /\ arl_obs.prev_op = "report_failure" /\ arl_obs.prev_code = 429
           /\ arl_obs.prev_level_before = NONE)
          => arl.block_level = SEVERE

\* two report_failure(429) calls in a row from None: the second is cut by the cap
C9_Witness ==
    /\ arl.block_level = SEVERE
    /\ arl_obs.op = "report_failure" /\ arl_obs.code = 429
    /\ arl_obs.prev_op = "report_failure" /\ arl_obs.prev_code = 429
    /\ arl_obs.prev_level_before = NONE
    /\ arl_obs.level_before = MODERATE

(***************************************************************************)
(* C10: block_level goes down only one step at a time and only in the      *)
(* report_success call that is the fifth in a row since the last           *)
(* report_failure or the last step down; Severe to None takes at least 15  *)
(* report_success calls with no report_failure between them.               *)
(***************************************************************************)
C10_DeEscalation ==
    /\ arl.block_level < arl_obs.level_before =>
          /\ arl.block_level = arl_obs.level_before - 1
          /\ arl_obs.op = "report_success"
          /\ arl_obs.run_before = 4
    /\ (arl_obs.level_after_fail - arl.block_level) * 5 <= arl_obs.succ_since_fail

\* Severe reached by a failure, then None reached by the 15th success
C10_Witness ==
    /\ arl.block_level = NONE
    /\ arl_obs.level_after_fail = SEVERE
    /\ arl_obs.succ_since_fail = 15
    /\ arl_obs.op = "report_success" /\ arl_obs.level_before = LIGHT

(***************************************************************************)
(* Helpers of the formulas                                                 *)
(***************************************************************************)
\* the number of positions of q that hold x
Count(q, x) == Cardinality({i \in 1..Len(q) : q[i] = x})

RECURSIVE IsSubseq(_, _)
\* r is w with some positions left out, the order kept
IsSubseq(r, w) ==
    IF r = <<>> THEN TRUE
    ELSE IF w = <<>> THEN FALSE
    ELSE IF Head(r) = Head(w) THEN IsSubseq(Tail(r), Tail(w))
    ELSE IsSubseq(r, Tail(w))

(***************************************************************************)
(* C4: a second mark_completed(u, data) with non-empty data leaves         *)
(* completed_urls, completed_url_list and scraped_data as the first call   *)
(* left them, each with exactly one entry for u.                           *)
(***************************************************************************)
C4_SecondCall ==
    (/\ pm_obs'.op = "mark_completed" /\ pm_obs'.data # "empty"
     /\ Count(pm.state.completed_url_list, pm_obs'.url) = 1
     /\ Cardinality({i \in 1..Len(pm.state.scraped_data) :
                        pm.state.scraped_data[i]._url = pm_obs'.url}) = 1)
    => /\ pm'.state.completed_urls = pm.state.completed_urls
       /\ pm'.state.completed_url_list = pm.state.completed_url_list
       /\ pm'.state.scraped_data = pm.state.scraped_data

C4_IdempotentCompletion == [][C4_SecondCall]_vars

(***************************************************************************)
(* C5: get_remaining_urls() is the worklist without the URLs of the        *)
(* completed list and of the failed list, in worklist order; worklist      *)
(* [A,B,C,D] with completed [A,B] gives [C,D].                             *)
(***************************************************************************)
C5_Remaining ==
    LET r == get_remaining_urls(pm)
        w == pm.state.urls_to_scrape
        done == Range(pm.state.completed_url_list) \cup Range(pm.state.failed_url_list)
    IN /\ IsSubseq(r, w)
       /\ \A u \in URLS : Count(r, u) = (IF u \in done THEN 0 ELSE Count(w, u))
       /\ (/\ w = <<"A", "B", "C", "D">>
           /\ pm.state.completed_url_list = <<"A", "B">>
           /\ pm.state.failed_url_list = <<>>) => r = <<"C", "D">>

\* the worklist [A,B,C,D] set, then A and B marked completed
C5_Witness ==
    /\ pm.state.urls_to_scrape = <<"A", "B", "C", "D">>
    /\ pm.state.completed_url_list = <<"A", "B">>
    /\ pm.state.failed_url_list = <<>>
    /\ pm_obs.op = "mark_completed"
    /\ get_remaining_urls(pm) = <<"C", "D">>

(***************************************************************************)
(* C6: after any sequence of set_urls, add_urls, mark_completed and        *)
(* mark_failed calls, completed_url_list and failed_url_list have no URL   *)
(* in common.                                                              *)
(***************************************************************************)
C6_Disjoint ==
    Range(pm.state.completed_url_list) \cap Range(pm.state.failed_url_list) = {}

(***************************************************************************)
(* C3: in any time window of length W the number of acquire(1) calls of    *)
(* one RateLimiter that return is at most ceil(rate * W) + capacity.       *)
(* The window from the i-th to the j-th return is the shortest one that    *)
(* holds them all.                                                         *)
(***************************************************************************)
C3_RateBound ==
    \A i, j \in 1..Len(rl_admitted) :
        i <= j =>
           LET ticks == rl_admitted[j] - rl_admitted[i]
               ceil_rate_W == (rl.num * ticks + Unit(rl) - 1) \div Unit(rl)
           IN j - i + 1 <= ceil_rate_W + rl.capacity

(***************************************************************************)
(* C1: at any time at most max_concurrent tasks are inside the crawl, and  *)
(* for every origin at most max_per_domain tasks are crawling a URL of     *)
(* that origin; a task inside the crawl holds one global permit and one    *)
(* permit of its origin.                                                   *)
(***************************************************************************)
InFetch == {w \in Tasks : task[w].pc = "fetch"}

InFetchOf(d) == {w \in InFetch : netloc(task[w].url) = d}

AllTasksEnded == \A w \in Tasks : task[w].pc \in {"none", "done"}

C2_PermitsReturned ==
    (scraper._shutdown /\ phase \in {"running", "returned"} /\ AllTasksEnded) =>
        /\ gsem.value = max_concurrent
        /\ \A d \in Origins : dsems[d].created => dsems[d].value = max_per_domain

(***************************************************************************)
(* C7: a URL marked completed in a run that request_shutdown() interrupted *)
(* is not crawled in a later run of the task on the same URL list, and no  *)
(* task of a later run waits for a limiter or a permit with such a URL.    *)
(***************************************************************************)
CompletedInInterruptedRun(url) ==
    \E r \in hist.interrupted : r < run /\ <<r, url>> \in hist.marked

C7_NoRefetch ==
    /\ \A url \in URLS : CompletedInInterruptedRun(url) => <<run, url>> \notin hist.fetched
    /\ \A w \in Tasks :
          (task[w].pc # "none" /\ CompletedInInterruptedRun(task[w].url))
             => task[w].pc \in {"created", "done"}

\* the first run completed one URL and was interrupted; the later run crawls
\* another one
C7_Witness ==
    /\ run = 2
    /\ \E url \in Range(input_urls) : CompletedInInterruptedRun(url)
    /\ \E url \in Range(input_urls) : <<2, url>> \in hist.fetched

(***************************************************************************)
(* C8, as the code has it: a run of scrape_urls without a shutdown request  *)
(* returns; then every URL it dispatched (the handed list, or the remaining *)
(* URLs when some of the handed ones are already completed or failed) has   *)
(* exactly one outcome in the result list, every handed URL is in the       *)
(* completed or the failed list, in memory and in the file, and the status  *)
(* is completed; the status is completed only when every worklist URL is in *)
(* the completed or the failed list.                                        *)
(***************************************************************************)
Recorded(state, url) ==
    url \in Range(state.completed_url_list) \cup Range(state.failed_url_list)

Outcomes(url) == Cardinality({i \in 1..Len(results) : results[i].url = url})

Dispatched(url) == Cardinality({w \in Tasks : task[w].url = url})

RunReturned == phase = "returned" /\ ~scraper._shutdown

C8_AfterRun ==
    RunReturned =>
        /\ Len(results) = scraper.stats.total
        /\ \A url \in URLS : Outcomes(url) = Dispatched(url)
        /\ \A url \in Range(input_urls) : Recorded(pm.state, url)
        /\ pm.state.status = "completed"
        /\ pm.file = pm.state

C8_StatusCompleted ==
    pm.state.status = "completed" =>
        \A url \in Range(pm.state.urls_to_scrape) : Recorded(pm.state, url)

ShapesOf(e, d) ==
    {e.domains[d].url_patterns[i].shape : i \in 1..Len(e.domains[d].url_patterns)}

RecordOf(e, d, shape) ==
    LET i == IndexOf(e.domains[d].url_patterns, shape)
    IN IF i = 0 THEN NoRecord ELSE e.domains[d].url_patterns[i].rec

C11_WildcardMatch ==
    (/\ em_obs.op = "find_pattern"
     /\ ShapesOf(em, em_obs.url.netloc) = {ShapeArticlesStar})
    => /\ em_obs.url.path \in {PathArticles42, PathArticles7}
          => em_obs.found = RecordOf(em, em_obs.url.netloc, ShapeArticlesStar)
       /\ em_obs.url.path = PathArticles42Comments => em_obs.found = NoRecord

(***************************************************************************)
(* C20: save_pattern(url, data) raises success_count of the record of the  *)
(* URL's (origin, shape) by exactly 1, creating it with success_count 1    *)
(* when absent, and leaves its fail_count and last_fail as they were; no   *)
(* save_pattern or record_failure call lowers success_count or fail_count  *)
(* of a record.                                                            *)
(***************************************************************************)
C20_SaveCounts ==
    LET d == em_obs.url.netloc
        shape == _url_to_pattern(em_obs.url)
        old == RecordOf(em_obs.before, d, shape)
        new == RecordOf(em, d, shape)
    IN /\ em_obs.op = "save_pattern" =>
             /\ new # NoRecord
             /\ new.success_count = (IF old = NoRecord THEN 0 ELSE old.success_count) + 1
             /\ new.fail_count = (IF old = NoRecord THEN 0 ELSE old.fail_count)
             /\ new.last_fail = (IF old = NoRecord THEN NoTime ELSE old.last_fail)
       /\ \A o \in EMDomains : \A sh \in ShapesOf(em_obs.before, o) :
             /\ RecordOf(em, o, sh) # NoRecord
             /\ RecordOf(em, o, sh).success_count
                   >= RecordOf(em_obs.before, o, sh).success_count
             /\ RecordOf(em, o, sh).fail_count >= RecordOf(em_obs.before, o, sh).fail_count

\* a save on a record that has counted a failure
C20_Witness ==
    /\ em_obs.op = "save_pattern"
    /\ RecordOf(em_obs.before, em_obs.url.netloc, _url_to_pattern(em_obs.url)) # NoRecord
    /\ RecordOf(em, em_obs.url.netloc, _url_to_pattern(em_obs.url)).fail_count = 1
    /\ RecordOf(em, em_obs.url.netloc, _url_to_pattern(em_obs.url)).success_count = 2

(***************************************************************************)
(* C12: the delay slept before retry k, without the jitter, is             *)
(* min(retry_base_delay * 2^k, retry_max_delay); with base 5 s and max     *)
(* 60 s, k = 0..4 give 5, 10, 20, 40, 60 s and no k gives more than 60 s;  *)
(* the jitter is between 0 and 10% of the delay.                           *)
(***************************************************************************)
C12_BackoffDelay ==
    LET c == backoff.config
        k == backoff.retry_count
        doubled == c.base * 2^k
    IN backoff.slept =>
          /\ backoff.delay = (IF doubled <= c.max THEN doubled ELSE c.max)
          /\ backoff.delay <= c.max
          /\ 0 <= backoff.jitter /\ 10 * backoff.jitter <= backoff.delay
          /\ (c.base = 5 * DelayUnit /\ c.max = 60 * DelayUnit) =>
                /\ k <= 4 => backoff.delay = <<5, 10, 20, 40, 60>>[k + 1] * DelayUnit
                /\ backoff.delay <= 60 * DelayUnit

\* base 5 s, max 60 s: retry 4 sleeps the capped 60 s and 6 s of jitter
C12_Witness ==
    /\ backoff.slept
    /\ backoff.config = [base |-> 5 * DelayUnit, max |-> 60 * DelayUnit]
    /\ backoff.retry_count = 4
    /\ backoff.delay = 60 * DelayUnit
    /\ backoff.jitter = 6 * DelayUnit

(***************************************************************************)
(* C13, as the code has it: once request_shutdown() has set the flag, the  *)
(* flag stays set for the life of the scraper, no task starts a retry      *)
(* sleep, and a task that enters _scrape_single returns without taking a   *)
(* limiter or a permit and without starting a crawl; what it returns is    *)
(* the shutdown outcome, or the skip outcome when its URL is already       *)
(* completed.                                                              *)
(***************************************************************************)
Enters(w) ==
    /\ task[w].pc \in {"created", "backoff"}
    /\ ~task[w].cancel
    /\ task'[w].pc # task[w].pc

ShutdownOutcome(url) == Result(url, FALSE, "Shutdown requested")

SkipOutcome(url) == Result(url, TRUE, "Already completed (skipped)")

NoRetryAfterShutdown ==
    /\ scraper'.stats.retried = scraper.stats.retried
    /\ \A w \in Tasks : task'[w].pc = "backoff" => task[w].pc = "backoff"

ReturnsAtEntry(w, outcomes) ==
    /\ task'[w].pc = "done"
    /\ \E r \in outcomes : results' = Append(results, r)
    /\ UNCHANGED <<glim, dlims, gsem, dsems>>
    /\ hist'.fetched = hist.fetched

C13_Step ==
    /\ (scraper._shutdown /\ run' = run) => scraper'._shutdown
    /\ (scraper'._shutdown /\ run' = run) =>
          /\ NoRetryAfterShutdown
          /\ \A w \in Tasks :
                Enters(w) =>
                   ReturnsAtEntry(w, {ShutdownOutcome(task[w].url)} \cup
                                     (IF is_completed(pm, task[w].url)
                                      THEN {SkipOutcome(task[w].url)} ELSE {}))

C13_ShutdownFlag == [][C13_Step]_vars

\* the flag was set while a crawl of the run was under way, and a task that
\* entered _scrape_single afterwards returned the shutdown outcome
C13_Witness ==
    /\ scraper._shutdown
    /\ \E url \in URLS : <<run, url>> \in hist.fetched
    /\ \E i \in 1..Len(results) : results[i].error = "Shutdown requested"

\* C13 as stated: a task that enters after the flag is set returns a shutdown
\* outcome
C13_StepAsStated ==
    (scraper'._shutdown /\ run' = run) =>
        \A w \in Tasks : Enters(w) => ReturnsAtEntry(w, {ShutdownOutcome(task[w].url)})

C13_ShutdownOutcomeOnly == [][C13_StepAsStated]_vars

\* C14: when request_shutdown() was called during scrape_urls, scrape_urls ends
\* with the task persisted with status paused, and the persisted document holds
\* every completion recorded before the run ended
C14_PausedPersisted ==
    (phase = "returned" /\ run \in hist.interrupted) =>
        /\ pm.file # NoFile
        /\ pm.file.status = "paused"
        /\ \A m \in hist.marked : m[2] \in Range(pm.file.completed_url_list)

\* the progress state a resumed process loads from the persisted document
ResumedProgress == ProgressManager_init(pm.file, TRUE, progress_save_interval)

\* some worker of this run fetched the URL to its end: a success or a failure
\* after the last retry
SettledByAWorker(url) ==
    \E i \in 1..Len(results) :
        results[i].url = url /\ results[i].error \in {"", "timeout"}

AbortedInThisRun == {m[2] : m \in {a \in hist.aborted : a[1] = run}}

C15_AbortRecordsNothing ==
    hist'.aborted # hist.aborted =>
        /\ pm'.state.completed_url_list = pm.state.completed_url_list
        /\ pm'.state.failed_url_list = pm.state.failed_url_list

C15_AtReturn ==
    phase = "returned" =>
        \A url \in AbortedInThisRun :
            IF SettledByAWorker(url)
            THEN Recorded(pm.state, url)
            ELSE /\ ~Recorded(pm.state, url)
                 /\ url \in Range(get_remaining_urls(ResumedProgress))

C16_TerminalStep ==
    pm.state.status \in {"completed", "failed"} => pm'.state.status = pm.state.status

C16_TerminalStatus == [][C16_TerminalStep]_vars

\* C17: after pause(), resume(), finish(status) or fail(error) the persisted
\* document equals the in-memory state, new status included, whatever auto_save
\* and save_interval are and however many batched mutations were pending
C17_LifecyclePersisted ==
    pm_obs.op \in {"pause", "resume", "finish", "fail"} =>
        /\ pm.file = pm.state
        /\ pm_obs.op = "pause" => pm.file.status = "paused"
        /\ pm_obs.op = "resume" => pm.file.status = "in_progress"
        /\ pm_obs.op = "finish" => pm.file.status \in FinishStatuses
        /\ pm_obs.op = "fail" => pm.file.status = "failed" /\ pm.file.last_error \in Errors

\* mutations were batched (auto_save off, or on with the interval not reached)
\* when the lifecycle call was made, and it wrote them all
C17_Witness ==
    /\ pm_obs.op \in {"pause", "resume", "finish", "fail"}
    /\ ~pm.auto_save
    /\ pm_obs.calls >= 3
    /\ pm.state.completed_url_list # <<>>
    /\ pm.state.failed_url_list # <<>>
    /\ pm.file = pm.state

\* C18: with auto_save on and save_interval = N, the number of mark_completed
\* calls whose effect is not yet in the persisted document never exceeds N
\* the completions a crash would lose: in memory, not in the persisted document
LostCompletions ==
    Range(pm.state.completed_url_list) \
        (IF pm.file = NoFile THEN {} ELSE Range(pm.file.completed_url_list))

C18_BoundedLoss ==
    pm.auto_save =>
        /\ pm_obs.unsaved <= pm.save_interval
        /\ Cardinality(LostCompletions) <= pm_obs.unsaved

C18_Witness ==
    /\ pm.auto_save
    /\ pm.save_interval = MaxSaveInterval
    /\ pm_obs.unsaved = MaxSaveInterval - 1
    /\ pm_obs.op = "mark_completed"
    /\ Cardinality(LostCompletions) = MaxSaveInterval - 1
    /\ pm_obs.calls = MaxCalls

\* the pattern store has a record of some URL of the origin
HasPattern(url) ==
    /\ em.domains[netloc(url)].present
    /\ em.domains[netloc(url)].url_patterns # <<>>

\* C19: for every URL the orchestrator finishes, the outcome is reported to the
\* pattern store as well as to the progress store: save_pattern on a successful
\* fetch, record_failure together with mark_failed when the retries are exhausted
C19_OutcomeReported ==
    /\ \A m \in hist.marked : m[1] = run => HasPattern(m[2])
    /\ \A i \in 1..Len(results) :
          (results[i].error = "timeout" /\ is_failed(pm, results[i].url))
              => HasPattern(results[i].url)

(***************************************************************************)
(* C21: record_failure(url, ...) for an (origin, shape) without a stored   *)
(* record leaves the pattern store unchanged; when the record exists its   *)
(* fail_count rises by exactly 1 and the record is kept; no save_pattern   *)
(* or record_failure call removes a stored record.                         *)
(***************************************************************************)
C21_FailureFrame ==
    LET d == em_obs.url.netloc
        shape == _url_to_pattern(em_obs.url)
        old == RecordOf(em_obs.before, d, shape)
        new == RecordOf(em, d, shape)
    IN /\ em_obs.op = "record_failure" =>
             /\ em._meta = em_obs.before._meta
             /\ IF old = NoRecord THEN em = em_obs.before
                ELSE /\ new = [old EXCEPT !.fail_count = @ + 1, !.last_fail = em_obs.calls]
                     /\ \A o \in EMDomains :
                           /\ ShapesOf(em, o) = ShapesOf(em_obs.before, o)
                           /\ \A sh \in ShapesOf(em, o) :
                                 (o # d \/ sh # shape)
                                    => RecordOf(em, o, sh) = RecordOf(em_obs.before, o, sh)
       /\ \A o \in EMDomains : ShapesOf(em_obs.before, o) \subseteq ShapesOf(em, o)

C21_Witness ==
    /\ em_obs.op = "record_failure"
    /\ RecordOf(em_obs.before, em_obs.url.netloc, _url_to_pattern(em_obs.url)) # NoRecord
    /\ RecordOf(em, em_obs.url.netloc, _url_to_pattern(em_obs.url)).fail_count = 2
    /\ \E o \in EMDomains : Cardinality(ShapesOf(em, o)) = 1

\* the stored (origin, shape) records
Stored(e) == UNION {{<<o, sh>> : sh \in ShapesOf(e, o)} : o \in EMDomains}

RECURSIVE TotalSuccesses(_, _)
TotalSuccesses(e, K) ==
    IF K = {} THEN 0
    ELSE LET k == CHOOSE x \in K : TRUE
         IN RecordOf(e, k[1], k[2]).success_count + TotalSuccesses(e, K \ {k})

\* C22: after every save_pattern, and after any record_failure calls that
\* follow it, _meta.total_patterns is the number of stored (origin, shape)
\* records and _meta.total_successes is the sum of their success_count, also
\* when the store loaded at start had _meta values that disagreed with its records
C22_MetaInSync ==
    em_obs.saved =>
        /\ em._meta.total_patterns = Cardinality(Stored(em))
        /\ em._meta.total_successes = TotalSuccesses(em, Stored(em))

C22_Witness ==
    /\ em_obs.saved
    /\ em_obs.op = "record_failure"
    /\ em_obs.loaded._meta.total_patterns # Cardinality(Stored(em_obs.loaded))
    /\ em_obs.loaded._meta.total_successes
          # TotalSuccesses(em_obs.loaded, Stored(em_obs.loaded))
    /\ em._meta.total_patterns = 2
    /\ em._meta.total_successes = 3

\* the worker is known to the limiter, or to the semaphore, it waits on
UsesRegistryEntry(w) ==
    LET d == netloc(task[w].url)
    IN /\ task[w].pc = "dl_wait" =>
             dlims[d].created /\ (dlims[d]._lock = w \/ w \in Range(dlims[d]._waiters))
       /\ task[w].pc = "dl_sleep" => dlims[d].created /\ dlims[d]._lock = w
       /\ task[w].pc \in {"jitter"} => dlims[d].created
       /\ task[w].pc = "dsem_wait" =>
             dsems[d].created /\ (w \in dsems[d].handed \/ w \in Range(dsems[d].waiters))
       /\ task[w].pc \in {"gsem_wait", "fetch"} => dlims[d].created /\ dsems[d].created

C23_OneInstance ==
    /\ \A d \in Origins :
          /\ dlims[d].instance = (IF dlims[d].created THEN 1 ELSE 0)
          /\ dsems[d].instance = (IF dsems[d].created THEN 1 ELSE 0)
    /\ \A w \in Tasks : UsesRegistryEntry(w)

C23_EntryKept ==
    run' = run =>
        \A d \in Origins :
            /\ dlims[d].created => dlims'[d].created /\ dlims'[d].instance = dlims[d].instance
            /\ dsems[d].created => dsems'[d].created /\ dsems'[d].instance = dsems[d].instance

\* C23: whatever the interleaving of the workers of one origin, exactly one
\* rate limiter and exactly one semaphore are ever created for that origin, every
\* worker of the origin uses that instance, and the origin's registry entry is
\* never replaced or removed afterwards
C23_RegistryOnce == []C23_OneInstance /\ [][C23_EntryKept]_vars

\* two workers of one origin: one sleeps inside the origin's limiter, the other
\* queues for the same limiter
C23_Witness ==
    \E v, w \in Tasks :
        /\ v # w
        /\ netloc(task[v].url) = netloc(task[w].url)
        /\ task[v].pc = "dl_sleep"
        /\ task[w].pc = "dl_wait"
        /\ dlims[netloc(task[w].url)].instance = 1

\* the workers of this run whose process_url ran to its end
Finished == {w \in Tasks : task[w].pc = "done" /\ <<run, w>> \notin hist.cancelled}

\* C24: under any interleaving of the workers of one task no update to the
\* shared progress state is lost: completed_urls is the number of distinct URLs
\* whose fetch succeeded, failed_urls the number of distinct URLs recorded as
\* failed, and the result list has one entry per worker that finished
C24_NoLostUpdate ==
    /\ pm.state.completed_urls = Cardinality({m[2] : m \in hist.marked})
    /\ Range(pm.state.completed_url_list) = {m[2] : m \in hist.marked}
    /\ pm.state.failed_urls = Cardinality(Range(pm.state.failed_url_list))
    /\ \A i \in 1..Len(results) :
          results[i].error = "timeout" => results[i].url \in Range(pm.state.failed_url_list)
    /\ Len(results) = Cardinality(Finished)
    /\ scraper.stats.completed + scraper.stats.failed = Len(results)
    /\ \A url \in URLS : Outcomes(url) = Cardinality({w \in Finished : task[w].url = url})

\* one URL was fetched with success by two workers of the run and counted once
C24_Witness ==
    /\ phase = "returned"
    /\ \E i, j \in 1..Len(results) :
          i # j /\ results[i].url = results[j].url
                /\ results[i].error = "" /\ results[j].error = ""
    /\ pm.state.completed_urls = 1

\* the manager was given no task_id and a start_url
Derived(i) ==
    managers[i].task_id_arg = NoTaskId /\ managers[i].start_url # NoUrl

\* the manager constructed last, in the state after its construction
JustConstructed(j) == pd_obs.op = "construct" /\ j = Len(managers)

\* C25: two constructions given no task_id and the same start_url derive the
\* same task_id, a function of the start_url's hash and host only, so the second
\* construction loads the progress the first one persisted
C25_SameTask ==
    \A i, j \in 1..Len(managers) :
        (i < j /\ Derived(i) /\ Derived(j)
               /\ managers[i].start_url = managers[j].start_url) =>
           LET id == managers[j].task_id
           IN /\ managers[i].task_id = id
              /\ id = <<replace_dots(start_netloc(managers[j].start_url)),
                        md5_8(managers[j].start_url)>>
              /\ (/\ JustConstructed(j)
                  /\ pd_obs.writer[id] = i
                  /\ progress_dir[id] # NoFile
                  /\ UnknownField \notin DOMAIN progress_dir[id])
                 => /\ ~managers[j].raised
                    /\ managers[j].pm.state = progress_dir[id]
                    /\ managers[j].pm._completed_set
                          = Range(progress_dir[id].completed_url_list)

C25_Witness ==
    /\ JustConstructed(2)
    /\ Derived(1) /\ Derived(2)
    /\ managers[1].start_url = managers[2].start_url
    /\ pd_obs.writer[managers[2].task_id] = 1
    /\ managers[2].pm.state.completed_url_list = <<"A", "B">>
    /\ managers[2].pm.state = managers[1].pm.state

\* C26: loading a persisted progress document that contains a field unknown to
\* ProgressState succeeds: the unknown field is ignored and every known field is
\* restored as stored
C26_UnknownFieldIgnored ==
    \A j \in 1..Len(managers) :
        (JustConstructed(j) /\ progress_dir[managers[j].task_id] # NoFile) =>
           LET doc == progress_dir[managers[j].task_id]
           IN /\ ~managers[j].raised
              /\ \A f \in ProgressStateFields : managers[j].pm.state[f] = doc[f]

\* where a worker is between the entry of _scrape_single and the fetch
BeforeFetch == {"gl_wait", "gl_sleep", "dl_wait", "dl_sleep", "jitter", "dsem_wait", "gsem_wait"}

\* retry_count is the number of attempts of the worker that are over and whose
\* backoff sleep has elapsed: it rises in BackoffWake only
C27_Sequential(w) ==
    /\ task[w].attempts <= max_retries + 1
    /\ task[w].retry_count <= max_retries
    /\ task[w].pc \in {"fetch", "backoff"} => task[w].attempts = task[w].retry_count + 1
    /\ task[w].pc \in BeforeFetch \cup {"created"} => task[w].attempts = task[w].retry_count
    /\ task[w].pc = "done" => task[w].attempts \in {task[w].retry_count, task[w].retry_count + 1}

C27_AttemptStep(w) ==
    task'[w].attempts # task[w].attempts =>
        \/ task'[w].pc = "created" /\ task'[w].attempts = 0
        \/ task'[w].pc = "none"
        \/ /\ task'[w].attempts = task[w].attempts + 1
           /\ task[w].pc # "fetch"
           /\ task'[w].pc = "fetch"
           /\ task'[w].retry_count = task[w].attempts

\* C27 (amended): for every worker, that is every entry of the URL list, the
\* number of fetch attempts in one run is at most max_retries + 1, and its
\* attempts are strictly sequential: attempt k+1 starts only after attempt k has
\* finished and the backoff sleep that follows it has elapsed
C27_RetryChain ==
    /\ [](\A w \in Tasks : C27_Sequential(w))
    /\ [][\A w \in Tasks : C27_AttemptStep(w)]_vars

C27_Witness ==
    \E w \in Tasks :
        /\ task[w].pc = "done"
        /\ task[w].attempts = max_retries + 1
        /\ task[w].retry_count = max_retries
        /\ \E i \in 1..Len(results) :
              results[i].url = task[w].url /\ results[i].error = "timeout"

RECURSIVE SumAttempts(_)
SumAttempts(W) ==
    IF W = {} THEN 0
    ELSE LET w == CHOOSE x \in W : TRUE
         IN task[w].attempts + SumAttempts(W \ {w})

\* C27 (as stated): for every URL the number of fetch attempts in one run is at
\* most max_retries + 1
C27_AttemptsPerUrl ==
    \A url \in URLS : SumAttempts({w \in Tasks : task[w].url = url}) <= max_retries + 1

\* what one call of _scrape_single does up to the fetch, in order
Acquisitions ==
    <<"global_limiter", "domain_limiter", "jitter", "domain_permit", "global_permit">>

IsPrefix(p, q) == Len(p) <= Len(q) /\ p = SubSeq(q, 1, Len(p))

\* C28: every fetch attempt, retries included, is preceded in this order by the
\* global limiter, the origin's limiter, the jitter sleep, the per-origin permit
\* and the global permit; no fetch starts without all of them
C28_AcquiredBeforeFetch ==
    \A w \in Tasks :
        /\ IsPrefix(task[w].trace,
                    Acquisitions \o <<"fetch", "release_domain", "release_global">>)
        /\ task[w].pc = "fetch" => task[w].trace = Acquisitions \o <<"fetch">>
        /\ task[w].pc = "jitter" => task[w].trace = SubSeq(Acquisitions, 1, 2)
        /\ task[w].pc = "dsem_wait" => task[w].trace = SubSeq(Acquisitions, 1, 3)
        /\ task[w].pc = "gsem_wait" => task[w].trace = SubSeq(Acquisitions, 1, 4)

\* a retry is fetching, and it went through every acquisition again
C28_Witness ==
    \E w \in Tasks :
        /\ task[w].pc = "fetch"
        /\ task[w].retry_count = 1
        /\ task[w].attempts = 2
        /\ task[w].trace = Acquisitions \o <<"fetch">>

\* the position of an event in a trace, 0 when it is not there
Pos(tr, e) ==
    LET at == {i \in 1..Len(tr) : tr[i] = e}
    IN IF at = {} THEN 0 ELSE CHOOSE i \in at : \A j \in at : i <= j

C29_Order(tr) ==
    /\ Pos(tr, "global_permit") # 0 =>
          /\ Pos(tr, "domain_permit") # 0
          /\ Pos(tr, "domain_permit") < Pos(tr, "global_permit")
    /\ Pos(tr, "release_domain") # 0 =>
          /\ Pos(tr, "global_permit") # 0
          /\ Pos(tr, "global_permit") < Pos(tr, "release_domain")
          /\ Pos(tr, "release_global") = Pos(tr, "release_domain") + 1
    /\ Pos(tr, "release_global") # 0 => Pos(tr, "release_domain") # 0

\* what lines 288-289 and 341-344 do: the per-origin permit is acquired before
\* the global permit, and the two are released in that same order in one step
C29_PermitOrder == \A w \in Tasks : C29_Order(task[w].trace)

C29_Witness ==
    \E v, w \in Tasks :
        /\ v # w
        /\ task[v].trace = Acquisitions \o <<"fetch", "release_domain", "release_global">>
        /\ task[v].pc = "done"
        /\ task[w].pc = "fetch"
        /\ netloc(task[v].url) = netloc(task[w].url)

\* C29 (as stated): the per-origin permit is acquired before the global permit,
\* and the global permit is released first, then the per-origin permit
C29_ReverseRelease ==
    \A w \in Tasks :
        LET tr == task[w].trace
        IN /\ Pos(tr, "global_permit") # 0 =>
                 Pos(tr, "domain_permit") # 0
                    /\ Pos(tr, "domain_permit") < Pos(tr, "global_permit")
           /\ Pos(tr, "release_domain") # 0 =>
                 Pos(tr, "release_global") # 0
                    /\ Pos(tr, "release_global") < Pos(tr, "release_domain")

\* the callers inside the exclusive section of acquire
InSection == {c \in RLCallers : rl_caller[c].pc = "sleep"}

C30_Bounded ==
    /\ 0 <= rl.tokens
    /\ rl.tokens <= rl.capacity * Unit(rl)
    /\ Cardinality(InSection) <= 1
    /\ \A c \in InSection : rl._lock = c
    /\ \A c \in RLCallers :
          rl_caller[c].pc = "wait_lock" <=>
             \/ \E i \in 1..Len(rl._waiters) : rl._waiters[i] = c
             \/ rl._lock = c /\ c \notin InSection

\* while a caller sleeps between its refill and its consumption nobody else
\* touches the bucket, and its consumption is the next change of the bucket
C30_SectionStep ==
    \A c \in InSection :
        \/ /\ rl_caller'[c].pc = "sleep"
           /\ rl'.tokens = rl.tokens
           /\ rl'.last_update = rl.last_update
           /\ rl'._lock = c
        \/ /\ rl_caller'[c].pc = "idle"
           /\ rl'.last_update = rl.last_update
           /\ rl'.tokens \in {0, rl.tokens}

(***************************************************************************)
(* C30: in every reachable state of a RateLimiter 0 <= tokens <= capacity, *)
(* and the refill-then-consume step of one acquire call is never           *)
(* interleaved with that of another call on the same limiter, also while   *)
(* the first caller is suspended waiting for tokens.                       *)
(***************************************************************************)
C30_ExclusiveBucket == []C30_Bounded /\ [][C30_SectionStep]_vars

\* one caller sleeps in the section, another queues for the lock, and time has
\* passed since the sleeper's refill
C30_Witness ==
    \E c, d \in RLCallers :
        /\ rl_caller[c].pc = "sleep"
        /\ rl_caller[d].pc = "wait_lock"
        /\ now > rl.last_update
        /\ Len(rl_admitted) > 0

\* the entries of the session's log after entry i up to the next sleep
NextSleep(log, i) ==
    LET later == {j \in (i + 1)..Len(log) : log[j].kind = "wait"}
    IN IF later = {} THEN 0 ELSE CHOOSE j \in later : \A k \in later : j <= k

(***************************************************************************)
(* C31: within one crawl session the outcome of every fetch is reported to *)
(* the controller whose delay is slept between requests, so after a failed *)
(* fetch the next inter-request delay of the session is drawn at a block   *)
(* level above None.                                                       *)
(***************************************************************************)
C31_SessionBackoff ==
    \A i \in 1..Len(crawler.log) :
        (crawler.log[i].kind = "fetch" /\ ~crawler.log[i].ok
            /\ NextSleep(crawler.log, i) # 0) =>
           /\ crawler.log[NextSleep(crawler.log, i)].level > NONE
           /\ crawler.log[NextSleep(crawler.log, i)].delay >= min_delay * 2

\* a worker of the run is between its start and its return
ActiveWorkers == {w \in Tasks : task[w].pc \notin {"none", "done"}}

(***************************************************************************)
(* C32: when a run starts on a task whose persisted status is paused (the  *)
(* run before it was interrupted), the status is in_progress whenever a    *)
(* worker of the run is active.                                            *)
(***************************************************************************)
C32_ResumedInProgress ==
    (run > 1 /\ (run - 1) \in hist.interrupted /\ ActiveWorkers # {}) =>
        pm.state.status = "in_progress"

C33_Step ==
    (pm_obs'.calls = pm_obs.calls + 1 /\ pm_obs'.op = "mark_failed") =>
        LET url == pm_obs'.url
            old == pm.state
            new == pm'.state
        IN /\ new.failed_url_list = IF url \in Range(old.failed_url_list)
                                    THEN old.failed_url_list
                                    ELSE Append(old.failed_url_list, url)
           /\ new.failed_urls = Cardinality(Range(new.failed_url_list))
           /\ new.failed_urls = Len(new.failed_url_list)
           /\ new.retry_count = old.retry_count + 1
           /\ new.last_error \in Errors
           /\ new.urls_to_scrape = old.urls_to_scrape
           /\ new.total_urls = old.total_urls
           /\ new.completed_url_list = old.completed_url_list
           /\ new.completed_urls = old.completed_urls
           /\ pm'._completed_set = pm._completed_set
           /\ new.scraped_data = old.scraped_data
           /\ new.status = old.status

(***************************************************************************)
(* C33: mark_failed(url, error) adds url to failed_url_list at most once   *)
(* (failed_urls counts distinct URLs), increments the retry counter on     *)
(* every call, sets last_error, and leaves the worklist, the completed     *)
(* list and the result list unchanged.                                     *)
(***************************************************************************)
C33_MarkFailedFrame == [][C33_Step]_vars

\* the second mark_failed of a URL of the worklist
C33_Witness ==
    /\ pm_obs.op = "mark_failed"
    /\ pm.state.retry_count >= 2
    /\ pm.state.failed_url_list = <<pm_obs.url>>
    /\ pm.state.failed_urls = 1
    /\ pm_obs.url \in Range(pm.state.urls_to_scrape)
    /\ pm.state.last_error \in Errors

(***************************************************************************)
(* C34: throughout a run stats.completed + stats.failed equals the length  *)
(* of the result list and never exceeds stats.total; when the run ends     *)
(* without a shutdown request the sum equals stats.total, also when some   *)
(* URLs never succeeded.                                                   *)
(***************************************************************************)
C34_RunningSummary ==
    LET done == scraper.stats.completed + scraper.stats.failed
    IN /\ done = Len(results)
       /\ done <= scraper.stats.total
       /\ scraper.stats.completed =
             Cardinality({i \in 1..Len(results) : results[i].success})
       /\ (phase = "returned" /\ ~scraper._shutdown) => done = scraper.stats.total

\* a run ended without a shutdown request, one URL fetched and one given up
C34_Witness ==
    /\ phase = "returned"
    /\ ~scraper._shutdown
    /\ scraper.stats.total = 2
    /\ scraper.stats.completed = 1
    /\ scraper.stats.failed = 1
    /\ \E i \in 1..Len(results) : results[i].error = "timeout"

(***************************************************************************)
(* C35: a RateLimiter built with a positive rate and no explicit capacity  *)
(* has capacity equal to rate, hence capacity > 0, and starts with         *)
(* tokens = capacity; this holds for every positive rate, including        *)
(* non-integer rates and rates below one request per second.               *)
(***************************************************************************)
C35_DefaultCapacity ==
    /\ rl.capacity * rl.den = rl.num
    /\ rl.capacity > 0
    /\ (now = 0 /\ rl_admitted = <<>> /\ \A c \in RLCallers : rl_caller[c].pc = "idle") =>
          rl.tokens = rl.capacity * Unit(rl)

C36_Step ==
    \A url \in URLS :
        (url \notin Range(pm.state.failed_url_list)
            /\ url \in Range(pm'.state.failed_url_list)) =>
           \E w \in Tasks :
               /\ task[w].url = url
               /\ task[w].pc = "fetch"
               /\ task[w].attempts = max_retries + 1
               /\ task[w].retry_count = max_retries

(***************************************************************************)
(* C36: a URL is added to the failed list only after max_retries + 1 fetch *)
(* attempts on it have failed in the current run; a URL is never recorded  *)
(* as failed after fewer attempts because a shutdown was requested.        *)
(***************************************************************************)
C36_FailedAfterRetries == [][C36_Step]_vars

(***************************************************************************)
(* C37: if every fetch call returns and no shutdown is requested, every    *)
(* worker that starts waiting for the throttle or for a permit eventually  *)
(* performs its fetch: no interleaving of workers over any mix of origins  *)
(* deadlocks on the limiter locks, the registry locks and the two          *)
(* semaphore levels.                                                       *)
(***************************************************************************)
C37_EveryWaiterFetches ==
    \A w \in Tasks :
        (task[w].pc \in BeforeFetch /\ ~scraper._shutdown)
            ~> (task[w].pc = "fetch" \/ scraper._shutdown)

\* one worker fetches with both permits; the other one, of the same origin or
\* not, waits for a permit the first one holds
C37_Witness ==
    \E v, w \in Tasks :
        /\ task[v].pc = "fetch"
        /\ task[w].pc \in {"dsem_wait", "gsem_wait"}
        /\ ~scraper._shutdown
        /\ gsem.value = 0

\* the worker's current attempt took the permit and has not given it back
Holds(w, permit, release) ==
    Pos(task[w].trace, permit) # 0 /\ Pos(task[w].trace, release) = 0

\* the workers of an origin that are between the gate and the end of a fetch
AtGate(d) ==
    {w \in Tasks : /\ task[w].pc \in {"dsem_wait", "gsem_wait", "fetch"}
                   /\ netloc(task[w].url) = d}

(***************************************************************************)
(* C38: a worker holds no per-origin or global permit while it waits in    *)
(* the OriginThrottle or sleeps in a retry backoff: permits are held only  *)
(* from the gate acquisition to the end of that one fetch attempt, so a    *)
(* URL that is backing off never blocks another URL of the same origin.    *)
(***************************************************************************)
C38_NoPermitWhileWaiting ==
    /\ \A w \in Tasks :
          task[w].pc \in {"gl_wait", "gl_sleep", "dl_wait", "dl_sleep", "jitter", "backoff"} =>
             /\ ~Holds(w, "domain_permit", "release_domain")
             /\ ~Holds(w, "global_permit", "release_global")
    /\ \A w \in Tasks :
          (Holds(w, "domain_permit", "release_domain")
             \/ Holds(w, "global_permit", "release_global")) =>
                task[w].pc \in {"gsem_wait", "fetch"} \/ <<run, w>> \in hist.cancelled
    /\ ~scraper._shutdown =>
          /\ \A d \in Origins :
                (dsems[d].created /\ AtGate(d) = {}) => dsems[d].value = max_per_domain
          /\ (\A d \in Origins : AtGate(d) = {}) => gsem.value = max_concurrent

\* a URL is backing off while another URL of its origin is being fetched
C38_Witness ==
    \E v, w \in Tasks :
        /\ task[v].pc = "backoff"
        /\ task[w].pc = "fetch"
        /\ netloc(task[v].url) = netloc(task[w].url)
        /\ task[v].url # task[w].url
        /\ max_per_domain = 1

\* a list without a URL twice
NoDuplicates(q) == Cardinality(Range(q)) = Len(q)

(***************************************************************************)
(* C39: after any sequence of set_urls, add_urls, mark_completed,          *)
(* mark_failed and reset calls on a new task: completed_urls = length of   *)
(* completed_url_list = size of the in-memory completed set, failed_urls = *)
(* length of failed_url_list, total_urls = length of the worklist, and     *)
(* neither the completed list nor the failed list contains a URL twice.    *)
(***************************************************************************)
C39_CountersMatchLists ==
    /\ pm.state.completed_urls = Len(pm.state.completed_url_list)
    /\ pm.state.completed_urls = Cardinality(pm._completed_set)
    /\ pm._completed_set = Range(pm.state.completed_url_list)
    /\ pm.state.failed_urls = Len(pm.state.failed_url_list)
    /\ pm.state.total_urls = Len(pm.state.urls_to_scrape)
    /\ NoDuplicates(pm.state.completed_url_list)
    /\ NoDuplicates(pm.state.failed_url_list)

\* a reset cleared completions, and a URL was completed again after it
C39_Witness ==
    /\ pm_obs.dropped >= 1
    /\ pm_obs.op = "mark_completed"
    /\ pm.state.completed_urls = 1
    /\ pm.state.completed_url_list = <<pm_obs.url>>

\* the record of the URL's shape in a store, or NoRecord
RecordOfUrl(e, url) == RecordOf(e, url.netloc, _url_to_pattern(url))

(***************************************************************************)
(* C40: save(url, data) keeps every field of an existing record that data  *)
(* does not supply (description, fail_count, last_fail, created_at and     *)
(* status among them) unchanged; only success_count and last_success       *)
(* change, so a record whose status was set externally to retire it keeps  *)
(* that status.                                                            *)
(***************************************************************************)
C40_SaveKeepsFields ==
    (em_obs.op = "save_pattern" /\ RecordOfUrl(em_obs.before, em_obs.url) # NoRecord) =>
        LET old == RecordOfUrl(em_obs.before, em_obs.url)
            new == RecordOfUrl(em, em_obs.url)
        IN /\ new.success_count = old.success_count + 1
           /\ new.last_success = em_obs.calls
           /\ new.fail_count = old.fail_count
           /\ new.last_fail = old.last_fail
           /\ new.created_at = old.created_at
           /\ new.description \in {old.description} \cup (PatternData \ {"none"})
           /\ new.status = old.status

=============================================================================
